---- MODULE Spec2Model ----
(***************************************************************************)
(* git-etl: the ETL aggregation-and-upsert core.                           *)
(*                                                                         *)
(* The store is the SQLite database of db/schema.ts: five tables, each a   *)
(* sequence of rows in rowid order.  A statement is modelled by what its   *)
(* SQL does (ON CONFLICT ... DO UPDATE, INSERT OR IGNORE); BEGIN, COMMIT   *)
(* and ROLLBACK are those of the storage engine, which the repository      *)
(* takes as given: BEGIN saves the store, ROLLBACK restores what the       *)
(* matching BEGIN saved, and none of the three fails.  A failing statement *)
(* changes nothing and leaves the transaction open (SQLite's default ABORT *)
(* conflict resolution).                                                   *)
(*                                                                         *)
(* A Date is [valid, t]: t in epoch seconds, valid = FALSE for the Invalid *)
(* Date that new Date(NaN) yields.  toISOString is the pair <<day, second  *)
(* of day>>, compared as text (lexicographically) by SQLite's MIN and MAX. *)
(***************************************************************************)
EXTENDS Integers, Sequences, FiniteSets, TLC

VARIABLES
    db,         \* the store: [commits, authors, file_changes, tags, repos]
    journal,    \* what ROLLBACK restores: the store as of the open BEGIN
    openTx,     \* number of transactions begun and neither committed nor rolled back
    pc,         \* position of etlGitRepo
    world,      \* the repository the current run reads (what git would answer)
    repoInfo,   \* etlGitRepo's local: getRepoInfo's result
    language,   \* etlGitRepo's local
    commits,    \* etlGitRepo's local: parseGitLog's result
    authors,    \* etlGitRepo's local: aggregateAuthors' result
    tags,       \* etlGitRepo's local: parseGitTags' result
    thrown,     \* the error the operation inside withTransaction raised, or NoError
    outcome,    \* how etlGitRepo ended: "none", "returned", "raised"
    error,      \* the error etlGitRepo raised, or NoError
    txResult,   \* what withTransaction returned
    trace,      \* this run's sequence of events: external calls, begin, commit, rollback
    stmts,      \* statements of this run that changed the store
    faults,     \* statements of this run that the engine failed
    dbBefore,   \* the store when the current run (or call) started
    hist,       \* the completed runs, oldest first
    calls,      \* direct Upsert Engine calls made so far (specification SpecUpsert)
    bat,        \* main's batch loop over the configured repositories
    arg,        \* the argument a pure function is applied to
    ret,        \* what that function returned
    called      \* whether the function has been applied

vars == <<db, journal, openTx, pc, world, repoInfo, language, commits, authors,
          tags, thrown, outcome, error, txResult, trace, stmts, faults,
          dbBefore, hist, calls, bat, arg, ret, called>>

\* what the pipeline and the Upsert Engine leave alone
aux == <<bat, arg, ret, called>>

(***************************************************************************)
(* Bounds                                                                  *)
(***************************************************************************)
MaxRuns == 2
MaxCalls == 2
MaxBlocks == 2
MaxCommits == 3
MaxTagLines == 2
MaxFiles == 3
MaxBatchSize == 3

(***************************************************************************)
(* Values                                                                  *)
(***************************************************************************)
NULL == "<null>"
NullTs == <<>>
NoError == "<none>"
Undefined == "<undefined>"
SecondsPerDay == 86400

Date(t) == [valid |-> TRUE, t |-> t]
InvalidDate == [valid |-> FALSE, t |-> 0]
\* the tagDate of a GitTag that has none (null, not an Invalid Date)
NullDate == [valid |-> FALSE, t |-> 1]

\* Date.prototype.toISOString, for a valid Date: "YYYY-MM-DD" "T" "hh:mm:ss.000Z"
toISOString(d) == <<d.t \div SecondsPerDay, d.t % SecondsPerDay>>

\* text comparison of two ISO strings (SQLite's BINARY collation)
TextLess(x, y) == x[1] < y[1] \/ (x[1] = y[1] /\ x[2] < y[2])
SqlMin(x, y) == IF TextLess(y, x) THEN y ELSE x
SqlMax(x, y) == IF TextLess(x, y) THEN y ELSE x

\* JavaScript's < on two Dates: false as soon as one is invalid
DateLess(a, b) == a.valid /\ b.valid /\ a.t < b.t

FileChange(p, a, d) == [filePath |-> p, additions |-> a, deletions |-> d]

RECURSIVE SumAdd(_)
SumAdd(fcs) == IF fcs = <<>> THEN 0 ELSE Head(fcs).additions + SumAdd(Tail(fcs))
RECURSIVE SumDel(_)
SumDel(fcs) == IF fcs = <<>> THEN 0 ELSE Head(fcs).deletions + SumDel(Tail(fcs))

\* a GitCommit as parseGitLog builds it from one block
GitCommit(sha, email, name, at, msg, merge, branch, fcs) ==
    [sha |-> sha, authorEmail |-> email, authorName |-> name, committedAt |-> at,
     message |-> msg, additions |-> SumAdd(fcs), deletions |-> SumDel(fcs),
     filesChanged |-> Len(fcs), isMerge |-> merge, branch |-> branch,
     fileChanges |-> fcs]

GitTag(name, sha, tn, te, td, msg, ann) ==
    [tagName |-> name, sha |-> sha, taggerName |-> tn, taggerEmail |-> te,
     tagDate |-> td, message |-> msg, isAnnotated |-> ann]

(***************************************************************************)
(* The repositories the runs read                                          *)
(***************************************************************************)
cA1 == GitCommit("s1", "a@x.com", "A", Date(1000), "init", FALSE, "main",
                 <<FileChange("file.ts", 5, 2)>>)
\* the same commit seen again with other metadata (another branch checked out)
cA1b == GitCommit("s1", "a@x.com", "A2", Date(90000), "init!", TRUE, "dev",
                  <<FileChange("file.ts", 7, 0)>>)
\* lists one path twice
cB2 == GitCommit("s2", "b@x.com", "B", Date(86400), "two", FALSE, "main",
                 <<FileChange("file.ts", 1, 1), FileChange("file.ts", 3, 3)>>)
cA2 == GitCommit("s2", "a@x.com", "A3", Date(86399), "more", FALSE, "main",
                 <<FileChange("b.ts", 4, 4)>>)
\* timestamp line not an integer: parseInt gives NaN, new Date(NaN) is invalid
cA2bad == GitCommit("s2", "a@x.com", "A", InvalidDate, "bad", FALSE, "main", <<>>)
cB2bad == GitCommit("s2", "b@x.com", "B", InvalidDate, "bad", FALSE, "main", <<>>)

\* an author email without a dotted domain, as a machine-local git identity has
cR1 == GitCommit("s1", "root@localhost", "R", Date(1000), "init", FALSE, "main",
                 <<FileChange("file.ts", 5, 2)>>)

tAnn == GitTag("v1", "s1", "T", "t@x.com", Date(1000), "rel", TRUE)
tLight == GitTag("v1", "s2", NULL, NULL, NullDate, NULL, FALSE)

RepoNames == {"r1", "r2"}

\* the branch checked out: parseGitLog stamps it on every commit of the log
BranchOf(log) == IF log = <<>> THEN "main" ELSE log[1].branch

Content(lang, log, tgs) ==
    [branchOk |-> TRUE, logOk |-> TRUE, filesOk |-> TRUE, tagsOk |-> TRUE,
     language |-> lang, log |-> log, tags |-> tgs]

\* what the git commands answer for a repository, log most recent first
Contents ==
    { [Content(NULL, <<>>, <<>>) EXCEPT !.branchOk = FALSE],
      [Content(NULL, <<>>, <<>>) EXCEPT !.logOk = FALSE],
      Content(NULL, <<>>, <<>>),
      Content(NULL, <<cA1>>, <<>>),
      Content("TypeScript", <<cA1>>, <<tAnn>>),
      Content("TypeScript", <<cA1b>>, <<tLight>>),
      Content("TypeScript", <<cB2, cA1>>, <<tAnn>>),
      Content(NULL, <<cA2, cA1>>, <<tLight>>),
      Content("TypeScript", <<cA1, cA2bad>>, <<tAnn>>),
      Content("TypeScript", <<cA1, cB2bad>>, <<>>) }

Logs == { c.log : c \in Contents }

World(n, c) ==
    [name |-> n, branchOk |-> c.branchOk, logOk |-> c.logOk, filesOk |-> c.filesOk,
     tagsOk |-> c.tagsOk, language |-> c.language,
     log |-> c.log, tags |-> c.tags]

\* a second repository shares commits and authors with the first
Worlds ==
    { World("r1", c) : c \in Contents }
    \cup { World("r2", Content("TypeScript", <<cA1>>, <<tAnn>>)),
           World("r2", Content("TypeScript", <<cB2, cA1>>, <<tAnn>>)),
           World("r2", Content(NULL, <<cA2, cA1>>, <<tLight>>)),
           World("r1", Content(NULL, <<cR1>>, <<>>)),
           World("r1", [Content("TypeScript", <<cB2, cA1>>, <<tAnn>>) EXCEPT !.filesOk = FALSE]),
           World("r1", [Content("TypeScript", <<cB2, cA1>>, <<tAnn>>) EXCEPT !.tagsOk = FALSE]) }

NoWorld == [name |-> "", branchOk |-> FALSE, logOk |-> FALSE, filesOk |-> FALSE,
            tagsOk |-> FALSE, language |-> NULL,
            log |-> <<>>, tags |-> <<>>]

EmptyDb == [commits |-> <<>>, authors |-> <<>>, file_changes |-> <<>>,
            tags |-> <<>>, repos |-> <<>>]

(***************************************************************************)
(* Upsert Engine: the SQL statements                                       *)
(***************************************************************************)
RangeError == "RangeError: Invalid time value"
SqliteError == "SqliteError"

HasCommit(tbl, repoName, sha) ==
    \E i \in DOMAIN tbl : tbl[i].repo_name = repoName /\ tbl[i].sha = sha

\* the values insertCommits binds to the statement
CommitRow(repoName, c) ==
    [repo_name |-> repoName, sha |-> c.sha, author_email |-> c.authorEmail,
     author_name |-> c.authorName, committed_at |-> toISOString(c.committedAt),
     message |-> c.message, additions |-> c.additions, deletions |-> c.deletions,
     files_changed |-> c.filesChanged, is_merge |-> IF c.isMerge THEN 1 ELSE 0,
     branch |-> c.branch]

\* an upsert whose SET list forgets the branch column
UpsertCommitKeepsBranch(tbl, row) ==
    IF HasCommit(tbl, row.repo_name, row.sha)
    THEN [i \in DOMAIN tbl |->
            IF tbl[i].repo_name = row.repo_name /\ tbl[i].sha = row.sha
            THEN [row EXCEPT !.branch = tbl[i].branch]
            ELSE tbl[i]]
    ELSE Append(tbl, row)

\* INSERT INTO commits ... ON CONFLICT(repo_name, sha) DO UPDATE SET ...
UpsertCommit(tbl, row) ==
    IF HasCommit(tbl, row.repo_name, row.sha)
    THEN [i \in DOMAIN tbl |->
            IF tbl[i].repo_name = row.repo_name /\ tbl[i].sha = row.sha
            THEN [tbl[i] EXCEPT !.author_email = row.author_email,
                                !.author_name = row.author_name,
                                !.committed_at = row.committed_at,
                                !.message = row.message,
                                !.additions = row.additions,
                                !.deletions = row.deletions,
                                !.files_changed = row.files_changed,
                                !.is_merge = row.is_merge,
                                !.branch = row.branch]
            ELSE tbl[i]]
    ELSE Append(tbl, row)

AuthorRow(a) ==
    [email |-> a.email, name |-> a.name,
     first_commit_at |-> toISOString(a.firstCommitAt),
     last_commit_at |-> toISOString(a.lastCommitAt),
     total_commits |-> a.totalCommits]

\* an upsert that overwrites the count: total_commits = excluded.total_commits
UpsertAuthorOverwritesTotal(tbl, row) ==
    IF \E i \in DOMAIN tbl : tbl[i].email = row.email
    THEN [i \in DOMAIN tbl |->
            IF tbl[i].email = row.email
            THEN [tbl[i] EXCEPT
                    !.name = row.name,
                    !.first_commit_at = SqlMin(tbl[i].first_commit_at, row.first_commit_at),
                    !.last_commit_at = SqlMax(tbl[i].last_commit_at, row.last_commit_at),
                    !.total_commits = row.total_commits]
            ELSE tbl[i]]
    ELSE Append(tbl, row)

\* an upsert that overwrites the dates: first_commit_at = excluded.first_commit_at
UpsertAuthorOverwritesDates(tbl, row) ==
    IF \E i \in DOMAIN tbl : tbl[i].email = row.email
    THEN [i \in DOMAIN tbl |->
            IF tbl[i].email = row.email
            THEN [tbl[i] EXCEPT
                    !.name = row.name,
                    !.first_commit_at = row.first_commit_at,
                    !.last_commit_at = row.last_commit_at,
                    !.total_commits = tbl[i].total_commits + row.total_commits]
            ELSE tbl[i]]
    ELSE Append(tbl, row)

\* INSERT INTO authors ... ON CONFLICT(email) DO UPDATE SET name = excluded.name,
\* first_commit_at = MIN(..), last_commit_at = MAX(..), total_commits = total_commits + ..
UpsertAuthor(tbl, row) ==
    IF \E i \in DOMAIN tbl : tbl[i].email = row.email
    THEN [i \in DOMAIN tbl |->
            IF tbl[i].email = row.email
            THEN [tbl[i] EXCEPT
                    !.name = row.name,
                    !.first_commit_at = SqlMin(tbl[i].first_commit_at, row.first_commit_at),
                    !.last_commit_at = SqlMax(tbl[i].last_commit_at, row.last_commit_at),
                    !.total_commits = tbl[i].total_commits + row.total_commits]
            ELSE tbl[i]]
    ELSE Append(tbl, row)

HasFileChange(tbl, row) ==
    \E i \in DOMAIN tbl : /\ tbl[i].repo_name = row.repo_name
                          /\ tbl[i].sha = row.sha
                          /\ tbl[i].file_path = row.file_path

\* a plain INSERT into a table without the UNIQUE constraint
InsertFileChangeAlways(tbl, row) ==
    [tbl |-> Append(tbl, row), rowsAffected |-> 1]

\* INSERT OR REPLACE: the later row takes the place of the stored one
InsertOrReplaceFileChange(tbl, row) ==
    IF HasFileChange(tbl, row)
    THEN [tbl |-> [i \in DOMAIN tbl |->
                     IF /\ tbl[i].repo_name = row.repo_name
                        /\ tbl[i].sha = row.sha
                        /\ tbl[i].file_path = row.file_path
                     THEN row ELSE tbl[i]],
          rowsAffected |-> 1]
    ELSE [tbl |-> Append(tbl, row), rowsAffected |-> 1]

\* INSERT OR IGNORE INTO file_changes ...: the table, and the rows affected
InsertOrIgnoreFileChange(tbl, row) ==
    IF HasFileChange(tbl, row)
    THEN [tbl |-> tbl, rowsAffected |-> 0]
    ELSE [tbl |-> Append(tbl, row), rowsAffected |-> 1]

TagRow(repoName, t) ==
    [repo_name |-> repoName, tag_name |-> t.tagName, sha |-> t.sha,
     tagger_name |-> t.taggerName, tagger_email |-> t.taggerEmail,
     tag_date |-> IF t.tagDate = NullDate THEN NullTs ELSE toISOString(t.tagDate),
     message |-> t.message, is_annotated |-> IF t.isAnnotated THEN 1 ELSE 0]

\* an upsert that never overwrites a stored tagger or message with NULL
UpsertTagKeepsTagger(tbl, row) ==
    IF \E i \in DOMAIN tbl : tbl[i].repo_name = row.repo_name /\ tbl[i].tag_name = row.tag_name
    THEN [i \in DOMAIN tbl |->
            IF tbl[i].repo_name = row.repo_name /\ tbl[i].tag_name = row.tag_name
            THEN [tbl[i] EXCEPT !.sha = row.sha,
                                !.tagger_name = IF row.tagger_name = NULL THEN @
                                                ELSE row.tagger_name,
                                !.tagger_email = IF row.tagger_email = NULL THEN @
                                                 ELSE row.tagger_email,
                                !.tag_date = row.tag_date,
                                !.message = IF row.message = NULL THEN @ ELSE row.message,
                                !.is_annotated = row.is_annotated]
            ELSE tbl[i]]
    ELSE Append(tbl, row)

\* INSERT INTO tags ... ON CONFLICT(repo_name, tag_name) DO UPDATE SET ...
UpsertTag(tbl, row) ==
    IF \E i \in DOMAIN tbl : tbl[i].repo_name = row.repo_name /\ tbl[i].tag_name = row.tag_name
    THEN [i \in DOMAIN tbl |->
            IF tbl[i].repo_name = row.repo_name /\ tbl[i].tag_name = row.tag_name
            THEN [tbl[i] EXCEPT !.sha = row.sha,
                                !.tagger_name = row.tagger_name,
                                !.tagger_email = row.tagger_email,
                                !.tag_date = row.tag_date,
                                !.message = row.message,
                                !.is_annotated = row.is_annotated]
            ELSE tbl[i]]
    ELSE Append(tbl, row)

\* an upsert whose SET list forgets the language column
UpsertRepoKeepsLanguage(tbl, row) ==
    IF \E i \in DOMAIN tbl : tbl[i].name = row.name
    THEN [i \in DOMAIN tbl |->
            IF tbl[i].name = row.name
            THEN [tbl[i] EXCEPT !.last_commit_at = row.last_commit_at,
                                !.total_commits = row.total_commits]
            ELSE tbl[i]]
    ELSE Append(tbl, row)

\* INSERT INTO repos ... VALUES (?, ?, 0, ?, ?) ON CONFLICT(name) DO UPDATE SET
\* language, last_commit_at, total_commits
UpsertRepo(tbl, row) ==
    IF \E i \in DOMAIN tbl : tbl[i].name = row.name
    THEN [i \in DOMAIN tbl |->
            IF tbl[i].name = row.name
            THEN [tbl[i] EXCEPT !.language = row.language,
                                !.last_commit_at = row.last_commit_at,
                                !.total_commits = row.total_commits]
            ELSE tbl[i]]
    ELSE Append(tbl, row)

(***************************************************************************)
(* Upsert Engine: the insert loops.  f is the record at which the engine   *)
(* fails the statement (0: the engine fails none).                         *)
(***************************************************************************)
RECURSIVE insertCommitsFrom(_, _, _, _, _)
insertCommitsFrom(acc, repoName, cs, i, f) ==
    IF i > Len(cs) THEN acc
    ELSE insertCommitsFrom(
           IF ~cs[i].committedAt.valid
           THEN \* toISOString throws before the statement runs; caught
                [acc EXCEPT !.errors = @ + 1]
           ELSE IF i = f
           THEN [acc EXCEPT !.errors = @ + 1, !.faults = @ + 1]
           ELSE [acc EXCEPT !.tbl = UpsertCommit(@, CommitRow(repoName, cs[i])),
                            !.processed = @ + 1],
           repoName, cs, i + 1, f)

insertCommits(tbl, repoName, cs, f) ==
    insertCommitsFrom([tbl |-> tbl, processed |-> 0, errors |-> 0, faults |-> 0],
                      repoName, cs, 1, f)

\* no try/catch: the first failure leaves the loop and the function
RECURSIVE insertAuthorsFrom(_, _, _, _)
insertAuthorsFrom(acc, as, i, f) ==
    IF i > Len(as) THEN [acc EXCEPT !.result = Len(as)]
    ELSE IF ~as[i].firstCommitAt.valid \/ ~as[i].lastCommitAt.valid
    THEN [acc EXCEPT !.threw = RangeError]
    ELSE IF i = f
    THEN [acc EXCEPT !.threw = SqliteError, !.faults = @ + 1]
    ELSE insertAuthorsFrom(
           [acc EXCEPT !.tbl = UpsertAuthor(@, AuthorRow(as[i])), !.ran = @ + 1],
           as, i + 1, f)

insertAuthors(tbl, as, f) ==
    insertAuthorsFrom([tbl |-> tbl, ran |-> 0, faults |-> 0, threw |-> NoError,
                       result |-> 0], as, 1, f)

BATCH_SIZE == 1000

Min(a, b) == IF a < b THEN a ELSE b

\* the rows of one commit, in file order
FileChangeRows(repoName, c) ==
    [k \in 1..Len(c.fileChanges) |->
        [repo_name |-> repoName, sha |-> c.sha,
         file_path |-> c.fileChanges[k].filePath,
         additions |-> c.fileChanges[k].additions,
         deletions |-> c.fileChanges[k].deletions]]

\* allFileChanges: every file change of every commit, commit by commit
RECURSIVE Flatten(_, _)
Flatten(repoName, cs) ==
    IF cs = <<>> THEN <<>>
    ELSE FileChangeRows(repoName, Head(cs)) \o Flatten(repoName, Tail(cs))

\* the inner loop over one batch; base + j counts the rows from the start
\* of the call, issued lists the rows the statement ran for
RECURSIVE insertBatch(_, _, _, _, _)
insertBatch(acc, batch, j, base, f) ==
    IF j > Len(batch) \/ acc.threw # NoError THEN acc
    ELSE IF base + j = f
    THEN [acc EXCEPT !.threw = SqliteError, !.faults = @ + 1]
    ELSE LET r == InsertOrIgnoreFileChange(acc.tbl, batch[j])
         IN insertBatch([acc EXCEPT !.tbl = r.tbl,
                                    !.totalInserted = @ + r.rowsAffected,
                                    !.ran = @ + 1,
                                    !.issued = Append(@, batch[j])],
                        batch, j + 1, base, f)

\* a slice that ends one row before the next batch starts
sliceOneShort(all, i, size) == SubSeq(all, i + 1, Min(i + size - 1, Len(all)))

\* allFileChanges.slice(i, Math.min(i + BATCH_SIZE, totalChanges))
slice(all, i, size) == SubSeq(all, i + 1, Min(i + size, Len(all)))

\* for (let i = 0; i < totalChanges; i += BATCH_SIZE), for a batch size
RECURSIVE insertBatches(_, _, _, _, _)
insertBatches(acc, all, i, f, size) ==
    IF i >= Len(all) \/ acc.threw # NoError THEN acc
    ELSE insertBatches(insertBatch(acc, slice(all, i, size), 1, i, f),
                       all, i + size, f, size)

insertBatchesFrom(acc, all, i, f) == insertBatches(acc, all, i, f, BATCH_SIZE)

NoneInserted(tbl) ==
    [tbl |-> tbl, totalInserted |-> 0, ran |-> 0, faults |-> 0, threw |-> NoError,
     issued |-> <<>>]

insertFileChanges(tbl, repoName, cs, f) ==
    insertBatchesFrom(NoneInserted(tbl), Flatten(repoName, cs), 0, f)

RECURSIVE insertTagsFrom(_, _, _, _, _)
insertTagsFrom(acc, repoName, ts, i, f) ==
    IF i > Len(ts) THEN [acc EXCEPT !.result = Len(ts)]
    ELSE IF i = f
    THEN [acc EXCEPT !.threw = SqliteError, !.faults = @ + 1]
    ELSE insertTagsFrom(
           [acc EXCEPT !.tbl = UpsertTag(@, TagRow(repoName, ts[i])), !.ran = @ + 1],
           repoName, ts, i + 1, f)

insertTags(tbl, repoName, ts, f) ==
    insertTagsFrom([tbl |-> tbl, ran |-> 0, faults |-> 0, threw |-> NoError,
                    result |-> 0], repoName, ts, 1, f)

\* commits[0]?.committedAt.toISOString(): undefined (bound as NULL) for no commit
upsertRepositoryMetadata(tbl, repoName, lang, cs, f) ==
    IF cs # <<>> /\ ~cs[1].committedAt.valid
    THEN [tbl |-> tbl, ran |-> 0, faults |-> 0, threw |-> RangeError]
    ELSE IF f = 1
    THEN [tbl |-> tbl, ran |-> 0, faults |-> 1, threw |-> SqliteError]
    ELSE [tbl |-> UpsertRepo(tbl,
                    [name |-> repoName, language |-> lang, is_archived |-> 0,
                     last_commit_at |-> IF cs = <<>> THEN NullTs
                                        ELSE toISOString(cs[1].committedAt),
                     total_commits |-> Len(cs)]),
          ran |-> 1, faults |-> 0, threw |-> NoError]

(***************************************************************************)
(* Aggregator                                                              *)
(***************************************************************************)
IndexOfEmail(as, email) ==
    IF \E i \in DOMAIN as : as[i].email = email
    THEN CHOOSE i \in DOMAIN as : as[i].email = email
    ELSE 0

\* a fold that keeps the name of the first commit it saw of an email
FoldAuthorKeepsFirstName(as, c) ==
    LET i == IndexOfEmail(as, c.authorEmail) IN
    IF i = 0
    THEN Append(as, [email |-> c.authorEmail, name |-> c.authorName,
                     firstCommitAt |-> c.committedAt,
                     lastCommitAt |-> c.committedAt, totalCommits |-> 1])
    ELSE [as EXCEPT ![i] =
            [@ EXCEPT !.totalCommits = @ + 1,
                      !.firstCommitAt = IF DateLess(c.committedAt, as[i].firstCommitAt)
                                        THEN c.committedAt ELSE @,
                      !.lastCommitAt = IF DateLess(as[i].lastCommitAt, c.committedAt)
                                       THEN c.committedAt ELSE @]]

\* one iteration of the fold; the Map keeps its keys in insertion order
FoldAuthor(as, c) ==
    LET i == IndexOfEmail(as, c.authorEmail) IN
    IF i = 0
    THEN Append(as, [email |-> c.authorEmail, name |-> c.authorName,
                     firstCommitAt |-> c.committedAt,
                     lastCommitAt |-> c.committedAt, totalCommits |-> 1])
    ELSE [as EXCEPT ![i] =
            [@ EXCEPT !.totalCommits = @ + 1,
                      !.name = c.authorName,
                      !.firstCommitAt = IF DateLess(c.committedAt, as[i].firstCommitAt)
                                        THEN c.committedAt ELSE @,
                      !.lastCommitAt = IF DateLess(as[i].lastCommitAt, c.committedAt)
                                       THEN c.committedAt ELSE @]]

RECURSIVE aggregateAuthorsFrom(_, _)
aggregateAuthorsFrom(as, cs) ==
    IF cs = <<>> THEN as ELSE aggregateAuthorsFrom(FoldAuthor(as, Head(cs)), Tail(cs))

aggregateAuthors(cs) == aggregateAuthorsFrom(<<>>, cs)

RECURSIVE SumField(_, _)
\* commits.reduce((sum, c) => sum + c[field], 0)
SumField(cs, field) ==
    IF cs = <<>> THEN 0 ELSE Head(cs)[field] + SumField(Tail(cs), field)

\* the empty string; a calendar date "YYYY-MM-DD" is the text <<day>>
EmptyString == <<>>
DateText(c) == <<toISOString(c.committedAt)[1]>>

\* a summary whose range runs from the first element to the last
calculateSummaryStatsFirstToLast(cs) ==
    IF cs # <<>> /\ (~cs[Len(cs)].committedAt.valid \/ ~cs[1].committedAt.valid)
    THEN [threw |-> RangeError]
    ELSE [threw |-> NoError,
          totalCommits |-> Len(cs),
          totalAdditions |-> SumField(cs, "additions"),
          totalDeletions |-> SumField(cs, "deletions"),
          totalFilesChanged |-> SumField(cs, "filesChanged"),
          mergeCommitsCount |-> Cardinality({ i \in DOMAIN cs : cs[i].isMerge }),
          uniqueAuthorsCount |-> Cardinality({ cs[i].authorEmail : i \in DOMAIN cs }),
          dateRange |-> [from |-> IF cs = <<>> THEN EmptyString ELSE DateText(cs[1]),
                         to |-> IF cs = <<>> THEN EmptyString
                                ELSE DateText(cs[Len(cs)])]]

\* dateFrom is read off the last element and dateTo off the first;
\* toISOString throws on an Invalid Date and nothing catches it
calculateSummaryStats(cs) ==
    IF cs # <<>> /\ (~cs[Len(cs)].committedAt.valid \/ ~cs[1].committedAt.valid)
    THEN [threw |-> RangeError]
    ELSE [threw |-> NoError,
          totalCommits |-> Len(cs),
          totalAdditions |-> SumField(cs, "additions"),
          totalDeletions |-> SumField(cs, "deletions"),
          totalFilesChanged |-> SumField(cs, "filesChanged"),
          mergeCommitsCount |-> Cardinality({ i \in DOMAIN cs : cs[i].isMerge }),
          uniqueAuthorsCount |-> Cardinality({ cs[i].authorEmail : i \in DOMAIN cs }),
          dateRange |-> [from |-> IF cs = <<>> THEN EmptyString
                                  ELSE DateText(cs[Len(cs)]),
                         to |-> IF cs = <<>> THEN EmptyString ELSE DateText(cs[1])]]

(***************************************************************************)
(* Validator                                                               *)
(***************************************************************************)
\* the characters of the texts the repositories hold; the shas s1 and s2
\* abbreviate seven-digit hexadecimal hashes
Chars(s) ==
    CASE s = "s1" -> <<"a", "1", "b", "2", "c", "3", "d">>
      [] s = "s2" -> <<"e", "4", "f", "5", "a", "6", "b">>
      [] s = "a@x.com" -> <<"a", "@", "x", ".", "c", "o", "m">>
      [] s = "b@x.com" -> <<"b", "@", "x", ".", "c", "o", "m">>
      [] s = "t@x.com" -> <<"t", "@", "x", ".", "c", "o", "m">>
      [] s = "root@localhost" ->
           <<"r", "o", "o", "t", "@", "l", "o", "c", "a", "l", "h", "o", "s", "t">>
      [] s = "A" -> <<"A">>
      [] s = "A2" -> <<"A", "2">>
      [] s = "A3" -> <<"A", "3">>
      [] s = "B" -> <<"B">>
      [] s = "R" -> <<"R">>
      [] s = "T" -> <<"T">>
      [] s = "init" -> <<"i", "n", "i", "t">>
      [] s = "init!" -> <<"i", "n", "i", "t", "!">>
      [] s = "two" -> <<"t", "w", "o">>
      [] s = "more" -> <<"m", "o", "r", "e">>
      [] s = "bad" -> <<"b", "a", "d">>
      [] s = "rel" -> <<"r", "e", "l">>
      [] s = "v1" -> <<"v", "1">>
      [] OTHER -> <<>>

Whitespace == {" ", "\t", "\n"}
HexDigits == {"0", "1", "2", "3", "4", "5", "6", "7", "8", "9",
              "a", "b", "c", "d", "e", "f", "A", "B", "C", "D", "E", "F"}

\* !s || s.trim().length === 0
IsBlank(cs) == \A i \in DOMAIN cs : cs[i] \in Whitespace

\* [^\s@]+ over cs[from..to]
LocalPart(cs, from, to) ==
    /\ from <= to
    /\ \A i \in from..to : cs[i] \notin Whitespace \cup {"@"}

\* /^[^\s@]+@[^\s@]+\.[^\s@]+$/
emailRegex(cs) ==
    \E i, j \in DOMAIN cs :
        /\ i < j
        /\ cs[i] = "@"
        /\ cs[j] = "."
        /\ LocalPart(cs, 1, i - 1)
        /\ LocalPart(cs, i + 1, j - 1)
        /\ LocalPart(cs, j + 1, Len(cs))

\* the error of validateEmail, as a list of none or one
validateEmail(email) ==
    LET cs == Chars(email) IN
    IF IsBlank(cs) THEN <<"Email cannot be empty">>
    ELSE IF ~emailRegex(cs) THEN <<"Invalid email format">>
    ELSE IF Len(cs) > 255 THEN <<"Email exceeds 255 characters">>
    ELSE <<>>

validateSha(sha) ==
    LET cs == Chars(sha) IN
    IF IsBlank(cs) THEN <<"SHA cannot be empty">>
    ELSE IF Len(cs) < 7 \/ Len(cs) > 40 THEN <<"Invalid SHA length">>
    ELSE IF \E i \in DOMAIN cs : cs[i] \notin HexDigits
    THEN <<"Invalid SHA format (must be hex)">>
    ELSE <<>>

\* the violations of one commit, in the order the checks are made; an
\* Invalid Date is an instance of Date and passes the date check
validateCommit(c) ==
    validateSha(c.sha)
    \o validateEmail(c.authorEmail)
    \o (IF IsBlank(Chars(c.authorName)) THEN <<"Author name cannot be empty">> ELSE <<>>)
    \o (IF Len(Chars(c.authorName)) > 255
        THEN <<"Author name exceeds 255 characters">> ELSE <<>>)
    \o (IF Len(Chars(c.message)) > 65535
        THEN <<"Commit message exceeds maximum length">> ELSE <<>>)
    \o (IF c.additions < 0 \/ c.deletions < 0 \/ c.filesChanged < 0
        THEN <<"Addition/deletion/file counts cannot be negative">> ELSE <<>>)

(***************************************************************************)
(* State                                                                   *)
(***************************************************************************)
NoRepoInfo == [name |-> "", currentBranch |-> ""]

\* main has not entered its batch loop
NoBatch == [list |-> <<>>, i |-> 0, phase |-> "none", visited |-> <<>>, ran |-> 0,
            successCount |-> 0, failCount |-> 0, skippedCount |-> 0]

\* the store is empty and no run has started
Fresh ==
    /\ db = EmptyDb
    /\ journal = EmptyDb
    /\ openTx = 0
    /\ pc = "idle"
    /\ world = NoWorld
    /\ repoInfo = NoRepoInfo
    /\ language = NULL
    /\ commits = <<>>
    /\ authors = <<>>
    /\ tags = <<>>
    /\ thrown = NoError
    /\ outcome = "none"
    /\ error = NoError
    /\ txResult = NoError
    /\ trace = <<>>
    /\ stmts = 0
    /\ faults = 0
    /\ dbBefore = EmptyDb
    /\ hist = <<>>
    /\ calls = <<>>

Init ==
    /\ Fresh
    /\ bat = NoBatch
    /\ arg = <<>>
    /\ ret = <<>>
    /\ called = FALSE

Counts(d) ==
    [commits |-> Len(d.commits), authors |-> Len(d.authors),
     file_changes |-> Len(d.file_changes), tags |-> Len(d.tags),
     repos |-> Len(d.repos)]

locals == <<repoInfo, language, commits, authors, tags>>
ending == <<thrown, outcome, error, txResult>>
store == <<db, journal, openTx>>

(***************************************************************************)
(* etlGitRepo, step by step                                                *)
(***************************************************************************)
\* a run starts on some repository; its locals are fresh
StartRun(w) ==
    /\ pc = "idle"
    /\ Len(hist) < MaxRuns
    /\ calls = <<>>
    /\ world' = w
    /\ pc' = "getRepoInfo"
    /\ repoInfo' = NoRepoInfo
    /\ language' = NULL
    /\ commits' = <<>>
    /\ authors' = <<>>
    /\ tags' = <<>>
    /\ thrown' = NoError
    /\ outcome' = "none"
    /\ error' = NoError
    /\ txResult' = NoError
    /\ trace' = <<>>
    /\ stmts' = 0
    /\ faults' = 0
    /\ dbBefore' = db
    /\ UNCHANGED <<store, hist, calls, aux>>

\* etlGitRepo raises e: nothing of it runs any more
Raise(e) ==
    /\ outcome' = "raised"
    /\ error' = e
    /\ pc' = "done"

GetRepoInfo ==
    /\ pc = "getRepoInfo"
    /\ trace' = Append(trace, "getRepoInfo")
    /\ IF world.branchOk
       THEN /\ repoInfo' = [name |-> world.name, currentBranch |-> BranchOf(world.log)]
            /\ pc' = "getRepoLanguage"
            /\ UNCHANGED <<outcome, error>>
       ELSE /\ Raise("Failed to get branch")
            /\ UNCHANGED repoInfo
    /\ UNCHANGED <<store, world, language, commits, authors, tags, thrown, txResult,
                   stmts, faults, dbBefore, hist, calls, aux>>

\* never raises: a failed listing and an unknown extension both give null
GetRepoLanguage ==
    /\ pc = "getRepoLanguage"
    /\ trace' = Append(trace, "getRepoLanguage")
    /\ language' = IF world.filesOk THEN world.language ELSE NULL
    /\ pc' = "parseGitLog"
    /\ UNCHANGED <<store, world, repoInfo, commits, authors, tags, ending,
                   stmts, faults, dbBefore, hist, calls, aux>>

\* a test that never takes the early return
NoCommitsFoundNever(cs) == Len(cs) < 0

\* if (commits.length === 0) return
NoCommitsFound(cs) == Len(cs) = 0

\* a log read that degrades to the empty list, as the tag read does
ParseGitLogSwallows ==
    /\ pc = "parseGitLog"
    /\ trace' = Append(trace, "parseGitLog")
    /\ commits' = IF world.logOk THEN world.log ELSE <<>>
    /\ IF ~world.logOk \/ NoCommitsFound(world.log)
       THEN /\ outcome' = "returned"
            /\ pc' = "done"
       ELSE /\ pc' = "aggregateAuthors"
            /\ UNCHANGED outcome
    /\ UNCHANGED <<store, world, repoInfo, language, authors, tags, thrown, error,
                   txResult, stmts, faults, dbBefore, hist, calls, aux>>

\* the log is read and parsed; no commit: etlGitRepo returns at once
ParseGitLog ==
    /\ pc = "parseGitLog"
    /\ trace' = Append(trace, "parseGitLog")
    /\ IF world.logOk
       THEN /\ commits' = world.log
            /\ IF NoCommitsFound(world.log)
               THEN /\ outcome' = "returned"
                    /\ pc' = "done"
               ELSE /\ pc' = "aggregateAuthors"
                    /\ UNCHANGED outcome
            /\ UNCHANGED error
       ELSE /\ Raise("Failed to run git log")
            /\ UNCHANGED commits
    /\ UNCHANGED <<store, world, repoInfo, language, authors, tags, thrown, txResult,
                   stmts, faults, dbBefore, hist, calls, aux>>

AggregateAuthors ==
    /\ pc = "aggregateAuthors"
    /\ authors' = aggregateAuthors(commits)
    /\ pc' = "parseGitTags"
    /\ UNCHANGED <<store, world, repoInfo, language, commits, tags, ending, trace,
                   stmts, faults, dbBefore, hist, calls, aux>>

\* never raises: a failed ref listing gives the empty list
\* a tag read that raises when the listing fails, as the log read does
ParseGitTagsRaises ==
    /\ pc = "parseGitTags"
    /\ trace' = Append(trace, "parseGitTags")
    /\ IF world.tagsOk
       THEN /\ tags' = world.tags
            /\ pc' = "withTransaction"
            /\ UNCHANGED <<outcome, error>>
       ELSE /\ Raise("Failed to parse tags")
            /\ UNCHANGED tags
    /\ UNCHANGED <<store, world, repoInfo, language, commits, authors, thrown, txResult,
                   stmts, faults, dbBefore, hist, calls, aux>>

\* never raises: a failed listing gives the empty list
ParseGitTags ==
    /\ pc = "parseGitTags"
    /\ trace' = Append(trace, "parseGitTags")
    /\ tags' = IF world.tagsOk THEN world.tags ELSE <<>>
    /\ pc' = "withTransaction"
    /\ UNCHANGED <<store, world, repoInfo, language, commits, authors, ending,
                   stmts, faults, dbBefore, hist, calls, aux>>

(***************************************************************************)
(* Transaction Coordinator                                                 *)
(***************************************************************************)
\* withTransaction: beginTransaction(db), then fn
WithTransactionBegin ==
    /\ pc = "withTransaction"
    /\ journal' = db
    /\ openTx' = openTx + 1
    /\ trace' = Append(trace, "begin")
    /\ pc' = "insertCommits"
    /\ UNCHANGED <<db, world, locals, ending, stmts, faults, dbBefore, hist, calls, aux>>

\* fn returned: commitTransaction(db); return result
WithTransactionCommit ==
    /\ pc = "commit"
    /\ openTx' = openTx - 1
    /\ trace' = Append(trace, "commit")
    /\ txResult' = Undefined
    /\ pc' = "calculateSummaryStats"
    /\ UNCHANGED <<db, journal, world, locals, thrown, outcome, error, stmts, faults,
                   dbBefore, hist, calls, aux>>

\* a catch that commits what the operation wrote before it rethrows
WithTransactionCatchCommits ==
    /\ pc = "catch"
    /\ openTx' = openTx - 1
    /\ trace' = Append(trace, "commit")
    /\ Raise(thrown)
    /\ UNCHANGED <<db, journal, world, locals, thrown, txResult, stmts, faults,
                   dbBefore, hist, calls, aux>>

\* a catch that rolls back and swallows the error
WithTransactionCatchSwallows ==
    /\ pc = "catch"
    /\ db' = journal
    /\ openTx' = openTx - 1
    /\ trace' = Append(trace, "rollback")
    /\ outcome' = "returned"
    /\ pc' = "done"
    /\ UNCHANGED <<journal, world, locals, thrown, error, txResult, stmts, faults,
                   dbBefore, hist, calls, aux>>

\* a catch that rethrows without rolling back
WithTransactionCatchNoRollback ==
    /\ pc = "catch"
    /\ Raise(thrown)
    /\ UNCHANGED <<store, world, locals, thrown, txResult, trace, stmts, faults,
                   dbBefore, hist, calls, aux>>

\* fn raised: rollbackTransaction(db); throw error
WithTransactionCatch ==
    /\ pc = "catch"
    /\ db' = journal
    /\ openTx' = openTx - 1
    /\ trace' = Append(trace, "rollback")
    /\ Raise(thrown)
    /\ UNCHANGED <<journal, world, locals, thrown, txResult, stmts, faults,
                   dbBefore, hist, calls, aux>>

(***************************************************************************)
(* The operation etlGitRepo passes to withTransaction                      *)
(***************************************************************************)
\* what every step of the operation does with a loop's result r
FnStep(table, r, next) ==
    /\ db' = [db EXCEPT ![table] = r.tbl]
    /\ stmts' = stmts + r.ran
    /\ faults' = faults + r.faults
    /\ IF r.threw = NoError
       THEN /\ pc' = next
            /\ UNCHANGED thrown
       ELSE /\ pc' = "catch"
            /\ thrown' = r.threw
    /\ UNCHANGED <<journal, openTx, world, locals, outcome, error, txResult, trace,
                   dbBefore, hist, calls, aux>>

InsertCommitsStep ==
    /\ pc = "insertCommits"
    /\ \E f \in 0..Len(commits) :
         LET r == insertCommits(db.commits, repoInfo.name, commits, f) IN
         FnStep("commits",
                [tbl |-> r.tbl, ran |-> r.processed, faults |-> r.faults,
                 threw |-> NoError],
                "insertAuthors")

InsertAuthorsStep ==
    /\ pc = "insertAuthors"
    /\ \E f \in 0..Len(authors) :
         FnStep("authors", insertAuthors(db.authors, authors, f), "insertFileChanges")

InsertFileChangesStep ==
    /\ pc = "insertFileChanges"
    /\ \E f \in 0..Len(Flatten(repoInfo.name, commits)) :
         FnStep("file_changes",
                insertFileChanges(db.file_changes, repoInfo.name, commits, f),
                "insertTags")

\* if (tags.length > 0) insertTags(...)
InsertTagsStep ==
    /\ pc = "insertTags"
    /\ IF Len(tags) > 0
       THEN \E f \in 0..Len(tags) :
              FnStep("tags", insertTags(db.tags, repoInfo.name, tags, f),
                     "upsertRepositoryMetadata")
       ELSE /\ pc' = "upsertRepositoryMetadata"
            /\ UNCHANGED <<store, world, locals, ending, trace, stmts, faults,
                           dbBefore, hist, calls, aux>>

UpsertRepositoryMetadataStep ==
    /\ pc = "upsertRepositoryMetadata"
    /\ \E f \in 0..1 :
         FnStep("repos",
                upsertRepositoryMetadata(db.repos, repoInfo.name, language, commits, f),
                "commit")

\* after the transaction: the summary of the parsed commits is computed and
\* printed, outside any try
CalculateSummaryStats ==
    /\ pc = "calculateSummaryStats"
    /\ IF calculateSummaryStats(commits).threw = NoError
       THEN /\ outcome' = "returned"
            /\ pc' = "done"
            /\ UNCHANGED error
       ELSE Raise(calculateSummaryStats(commits).threw)
    /\ UNCHANGED <<store, world, locals, thrown, txResult, trace, stmts, faults,
                   dbBefore, hist, calls, aux>>

\* etlGitRepo has returned or raised: the run is over
Return ==
    /\ pc = "done"
    /\ hist' = Append(hist, [world |-> world, outcome |-> outcome, error |-> error,
                              faults |-> faults, before |-> Counts(dbBefore),
                              after |-> Counts(db)])
    /\ pc' = "idle"
    /\ UNCHANGED <<store, world, locals, ending, trace, stmts, faults, dbBefore, calls, aux>>

Next ==
    \/ \E w \in Worlds : StartRun(w)
    \/ GetRepoInfo
    \/ GetRepoLanguage
    \/ ParseGitLog
    \/ AggregateAuthors
    \/ ParseGitTags
    \/ WithTransactionBegin
    \/ InsertCommitsStep
    \/ InsertAuthorsStep
    \/ InsertFileChangesStep
    \/ InsertTagsStep
    \/ UpsertRepositoryMetadataStep
    \/ WithTransactionCommit
    \/ WithTransactionCatch
    \/ CalculateSummaryStats
    \/ Return

Spec == Init /\ [][Next]_vars

(***************************************************************************)
(* The Upsert Engine called directly, outside any transaction: every       *)
(* statement that succeeds is kept (autocommit).                           *)
(***************************************************************************)
Call(fn, repoName, log, f, threw) ==
    [fn |-> fn, repoName |-> repoName, log |-> log, f |-> f, threw |-> threw]

CanCall ==
    /\ pc = "idle"
    /\ hist = <<>>
    /\ Len(calls) < MaxCalls

InsertCommitsCall(repoName, log, f) ==
    /\ CanCall
    /\ db' = [db EXCEPT !.commits = insertCommits(db.commits, repoName, log, f).tbl]
    /\ calls' = Append(calls, Call("insertCommits", repoName, log, f, NoError))
    /\ UNCHANGED <<journal, openTx, pc, world, locals, ending, trace, stmts, faults,
                   dbBefore, hist, aux>>

\* the authors are those the Aggregator derives from a log
InsertAuthorsCall(log, f) ==
    /\ CanCall
    /\ LET r == insertAuthors(db.authors, aggregateAuthors(log), f) IN
         /\ db' = [db EXCEPT !.authors = r.tbl]
         /\ calls' = Append(calls, Call("insertAuthors", "", log, f, r.threw))
    /\ UNCHANGED <<journal, openTx, pc, world, locals, ending, trace, stmts, faults,
                   dbBefore, hist, aux>>

InsertFileChangesCall(repoName, log, f) ==
    /\ CanCall
    /\ LET r == insertFileChanges(db.file_changes, repoName, log, f) IN
         /\ db' = [db EXCEPT !.file_changes = r.tbl]
         /\ calls' = Append(calls, Call("insertFileChanges", repoName, log, f, r.threw))
    /\ UNCHANGED <<journal, openTx, pc, world, locals, ending, trace, stmts, faults,
                   dbBefore, hist, aux>>

NextUpsert ==
    \/ \E n \in RepoNames, l \in Logs : \E f \in 0..Len(l) : InsertCommitsCall(n, l, f)
    \/ \E l \in Logs : \E f \in 0..Len(aggregateAuthors(l)) : InsertAuthorsCall(l, f)
    \/ \E n \in RepoNames, l \in Logs :
          \E f \in 0..Len(Flatten(n, l)) : InsertFileChangesCall(n, l, f)

SpecUpsert == Init /\ [][NextUpsert]_vars

(***************************************************************************)
(* insertFileChanges with a batch size its input crosses                   *)
(***************************************************************************)
cF3 == GitCommit("s3", "a@x.com", "A", Date(90000), "three", FALSE, "main",
                 <<FileChange("a.ts", 1, 0), FileChange("b.ts", 2, 0),
                   FileChange("file.ts", 3, 0)>>)

cE4 == GitCommit("s4", "b@x.com", "B", Date(90000), "merge", TRUE, "main", <<>>)

BatchingPool == {cA1, cB2, cF3, cE4}

\* logs in which every commit appears once
BatchingLogs ==
    { l \in UNION { [1..n -> BatchingPool] : n \in 0..MaxCommits } :
        \A i, j \in DOMAIN l : i # j => l[i] # l[j] }

\* the table before the call: empty, or as a run on another branch left it
BatchingTables == { <<>>, insertFileChanges(<<>>, "r1", <<cA1b>>, 0).tbl }

BatchingInputs ==
    { [size |-> size, log |-> l, f |-> f, tbl |-> t] :
        size \in 1..MaxBatchSize, l \in BatchingLogs, f \in 0..2, t \in BatchingTables }

InitBatching ==
    /\ Fresh
    /\ bat = NoBatch
    /\ arg \in BatchingInputs
    /\ ret = <<>>
    /\ called = FALSE

\* insertFileChanges run with the batch size of the input
InsertFileChangesBatchedCall ==
    /\ ~called
    /\ ret' = insertBatches(NoneInserted(arg.tbl), Flatten("r1", arg.log), 0, arg.f, arg.size)
    /\ called' = TRUE
    /\ UNCHANGED <<store, pc, world, locals, ending, trace, stmts, faults, dbBefore,
                   hist, calls, bat, arg>>

NextBatching == InsertFileChangesBatchedCall

SpecBatching == InitBatching /\ [][NextBatching]_vars

(***************************************************************************)
(* insertTags and upsertRepositoryMetadata called directly                 *)
(***************************************************************************)
tV2 == GitTag("v2", "s2", "T", "t@x.com", Date(86400), "rel", TRUE)

\* what for-each-ref lists: every tag name once
TagLists == {<<tAnn>>, <<tLight>>, <<tAnn, tV2>>, <<tV2, tLight>>}

\* logs as git prints them; in the third the first commit carries an older
\* commit timestamp than its parent (committer clocks disagree)
MetaLogs == {<<cA1>>, <<cA2, cA1>>, <<cA1, cA2>>, <<cB2bad, cA1>>}

MetaCall(fn, repoName, lang, log, tgs, f, threw) ==
    [fn |-> fn, repoName |-> repoName, language |-> lang, log |-> log, tags |-> tgs,
     f |-> f, threw |-> threw]

InsertTagsCall(repoName, ts, f) ==
    /\ CanCall
    /\ LET r == insertTags(db.tags, repoName, ts, f) IN
         /\ db' = [db EXCEPT !.tags = r.tbl]
         /\ calls' = Append(calls, MetaCall("insertTags", repoName, NULL, <<>>, ts, f, r.threw))
    /\ UNCHANGED <<journal, openTx, pc, world, locals, ending, trace, stmts, faults,
                   dbBefore, hist, aux>>

UpsertRepositoryMetadataCall(repoName, lang, log, f) ==
    /\ CanCall
    /\ LET r == upsertRepositoryMetadata(db.repos, repoName, lang, log, f) IN
         /\ db' = [db EXCEPT !.repos = r.tbl]
         /\ calls' = Append(calls, MetaCall("upsertRepositoryMetadata", repoName, lang, log,
                                            <<>>, f, r.threw))
    /\ UNCHANGED <<journal, openTx, pc, world, locals, ending, trace, stmts, faults,
                   dbBefore, hist, aux>>

NextMeta ==
    \/ \E n \in RepoNames, ts \in TagLists : \E f \in 0..Len(ts) : InsertTagsCall(n, ts, f)
    \/ \E n \in RepoNames, lang \in {NULL, "TypeScript"}, l \in MetaLogs, f \in 0..1 :
          UpsertRepositoryMetadataCall(n, lang, l, f)

SpecMeta == Init /\ [][NextMeta]_vars

(***************************************************************************)
(* Parser: parseGitLog on the text git printed.  A text is the sequence of *)
(* its lines (the text split at "\n": a text that ends with a newline has  *)
(* an empty last line); a line is the sequence of its words, the pieces    *)
(* between runs of whitespace, and carries no whitespace at its ends.      *)
(***************************************************************************)
COMMIT_START == "COMMIT_START"
COMMIT_MSG_END == "COMMIT_MSG_END"

NaN == [nan |-> TRUE, n |-> 0]
Num(n) == [nan |-> FALSE, n |-> n]

\* parseInt of one word: the number its leading digits spell, NaN without any
ParseIntWord(w) ==
    CASE w = "0" -> Num(0)
      [] w = "1" -> Num(1)
      [] w = "2" -> Num(2)
      [] w = "5" -> Num(5)
      [] w = "7" -> Num(7)
      [] w = "1000" -> Num(1000)
      [] w = "86400" -> Num(86400)
      [] w = "90000" -> Num(90000)
      [] w = "-5" -> Num(0 - 5)
      [] OTHER -> NaN

\* parseInt(line.trim()): leading whitespace skipped, then as above
parseInt(line) == IF line = <<>> THEN NaN ELSE ParseIntWord(line[1])

\* new Date(timestamp * 1000)
DateOf(timestamp) == IF timestamp.nan THEN InvalidDate ELSE Date(timestamp.n)

\* a binary file counted as one added and one deleted line
StatOfBinaryAsOne(w) ==
    IF w = "-" THEN 1 ELSE IF ParseIntWord(w).nan THEN 0 ELSE ParseIntWord(w).n

\* parts[k] === "-" ? 0 : parseInt(parts[k]) || 0
StatOf(w) == IF w = "-" THEN 0 ELSE IF ParseIntWord(w).nan THEN 0 ELSE ParseIntWord(w).n

AllButLast(q) == SubSeq(q, 1, Len(q) - 1)

\* logOutput.split("COMMIT_START\n"): a line that ends with the marker and is
\* followed by a newline ends a piece; what precedes the marker on that line
\* is the piece's last line
RECURSIVE splitFrom(_, _, _, _)
splitFrom(lines, i, cur, acc) ==
    IF i > Len(lines) THEN Append(acc, cur)
    ELSE IF i < Len(lines) /\ lines[i] # <<>> /\ lines[i][Len(lines[i])] = COMMIT_START
    THEN splitFrom(lines, i + 1, <<>>, Append(acc, Append(cur, AllButLast(lines[i]))))
    ELSE splitFrom(lines, i + 1, Append(cur, lines[i]), acc)

\* block.trim() is not empty
NotBlankBlock(block) == \E i \in DOMAIN block : block[i] # <<>>

commitBlocks(lines) == SelectSeq(splitFrom(lines, 1, <<>>, <<>>), NotBlankBlock)

\* lines.findIndex((line) => line === "COMMIT_MSG_END"), counted from 1; 0 for -1
msgEndIndex(lines) ==
    IF \E i \in DOMAIN lines : lines[i] = <<COMMIT_MSG_END>>
    THEN CHOOSE i \in DOMAIN lines :
           /\ lines[i] = <<COMMIT_MSG_END>>
           /\ \A j \in 1..(i - 1) : lines[j] # <<COMMIT_MSG_END>>
    ELSE 0

\* the totals and the records of a block before its first stat line
NoStats == [additions |-> 0, deletions |-> 0, filesChanged |-> 0, fileChanges |-> <<>>]

\* a stat step that counts a binary file without recording its FileChange
StatStepDropsBinaryRecord(acc, parts) ==
    [additions |-> acc.additions + StatOf(parts[1]),
     deletions |-> acc.deletions + StatOf(parts[2]),
     filesChanged |-> acc.filesChanged + 1,
     fileChanges |-> IF parts[1] = "-" THEN acc.fileChanges
                     ELSE Append(acc.fileChanges,
                                 FileChange(SubSeq(parts, 3, Len(parts)),
                                            StatOf(parts[1]), StatOf(parts[2])))]

\* one stat line of at least three parts: the running totals grow and one
\* FileChange is pushed
StatStep(acc, parts) ==
    [additions |-> acc.additions + StatOf(parts[1]),
     deletions |-> acc.deletions + StatOf(parts[2]),
     filesChanged |-> acc.filesChanged + 1,
     fileChanges |-> Append(acc.fileChanges,
                            FileChange(SubSeq(parts, 3, Len(parts)),
                                       StatOf(parts[1]), StatOf(parts[2])))]

\* the loop over the lines after the sentinel
RECURSIVE statsFrom(_, _, _)
statsFrom(lines, i, acc) ==
    IF i > Len(lines) THEN acc
    ELSE statsFrom(lines, i + 1,
                   IF Len(lines[i]) >= 3 THEN StatStep(acc, lines[i]) ELSE acc)

\* a merge commit lists at least one parent
IsMergeAnyParent(parents) == Len(parents) > 0

\* isMerge: parents.length > 1
IsMerge(parents) == Len(parents) > 1

\* the commit built from one block of at least six lines
parseBlock(lines, branch) ==
    LET st == IF msgEndIndex(lines) = 0 THEN NoStats
              ELSE statsFrom(lines, msgEndIndex(lines) + 1, NoStats)
    IN [sha |-> lines[1], authorEmail |-> lines[2], authorName |-> lines[3],
        committedAt |-> DateOf(parseInt(lines[4])), message |-> lines[6],
        additions |-> st.additions, deletions |-> st.deletions,
        filesChanged |-> st.filesChanged, isMerge |-> IsMerge(lines[5]),
        branch |-> branch, fileChanges |-> st.fileChanges]

RECURSIVE parseBlocks(_, _)
parseBlocks(blocks, branch) ==
    IF blocks = <<>> THEN <<>>
    ELSE (IF Len(Head(blocks)) < 6 THEN <<>> ELSE <<parseBlock(Head(blocks), branch)>>)
         \o parseBlocks(Tail(blocks), branch)

\* parseGitLog, from the decoded output on
parseGitLog(lines, branch) == parseBlocks(commitBlocks(lines), branch)

\* the lines git prints for one commit under the format of the command:
\* six field lines, the sentinel, then the numstat lines and a blank line
Block(sha, email, name, ts, parents, subject, stats) ==
    <<<<sha>>, <<email>>, name, <<ts>>, parents, subject, <<COMMIT_MSG_END>>>>
    \o stats \o << <<>> >>

WellFormedBlocks ==
    { Block("s1", "a@x.com", <<"A">>, "1000", <<>>, <<"init">>, <<<<"5", "2", "file.ts">>>>),
      Block("s2", "b@x.com", <<"B", "B">>, "86400", <<"s1">>, <<>>,
            <<<<"-", "-", "bin.png">>, <<"1", "1", "my", "file.ts">>>>),
      Block("s3", "a@x.com", <<"A2">>, "90000", <<"s2", "s1">>, <<"merge", "dev">>, <<>>),
      Block("s4", "a@x.com", <<"A">>, "abc", <<"s3">>, <<"more">>, <<<<"7", "0", "b.ts">>>>) }

\* a block cut short, a block of five lines, and two blocks without the sentinel
MalformedBlocks ==
    { <<<<"s5">>, <<"a@x.com">>, <<"A">>>>,
      <<<<"s6">>, <<"a@x.com">>, <<"A">>, <<"1000">>, <<"s1">>>>,
      <<<<"s7">>, <<"a@x.com">>, <<"A">>, <<"1000">>, <<"s1">>, <<"cut">>>>,
      <<<<"s8">>, <<"b@x.com">>, <<"B">>, <<"1000">>, <<"s1">>, <<"cut">>,
        <<"5", "2", "file.ts">>, <<>>>> }

RECURSIVE TextOf(_)
\* the text of a list of blocks: each after its marker line; the text ends
\* with a newline
TextOf(blocks) ==
    IF blocks = <<>> THEN << <<>> >>
    ELSE <<<<COMMIT_START>>>> \o Head(blocks) \o TextOf(Tail(blocks))

ParseInputs ==
    { [blocks |-> bs, text |-> TextOf(bs)] :
        bs \in UNION { [1..n -> WellFormedBlocks \cup MalformedBlocks] : n \in 0..MaxBlocks } }

InitParse ==
    /\ Fresh
    /\ bat = NoBatch
    /\ arg \in ParseInputs
    /\ ret = <<>>
    /\ called = FALSE

ParseGitLogCall(branch) ==
    /\ ~called
    /\ ret' = parseGitLog(arg.text, branch)
    /\ called' = TRUE
    /\ UNCHANGED <<store, pc, world, locals, ending, trace, stmts, faults, dbBefore,
                   hist, calls, bat, arg>>

NextParse == \E branch \in {"main", "dev"} : ParseGitLogCall(branch)

SpecParse == InitParse /\ [][NextParse]_vars

(***************************************************************************)
(* Tag parser: parseGitTags on the lines for-each-ref printed.  A line is  *)
(* the sequence of its fields, the pieces between the "|" separators.      *)
(***************************************************************************)
\* taggerEmail.replace(/^<|>$/g, "")
StripAngles(e) ==
    CASE e = "<t@x.com>" -> "t@x.com"
      [] OTHER -> e

\* `${subject}\n\n${body.trim()}`
SubjectAndBody(subject, body) ==
    CASE subject = "rel" /\ body = "notes" -> "rel\n\nnotes"
      [] subject = "" /\ body = "notes" -> "\n\nnotes"
      [] OTHER -> "?"

\* a date that takes the epoch itself for a tag date
TagDateOfAllowsZero(taggerDateStr) ==
    LET timestamp == ParseIntWord(taggerDateStr) IN
    IF ~timestamp.nan /\ timestamp.n >= 0 THEN Date(timestamp.n) ELSE NullDate

\* !isNaN(timestamp) && timestamp > 0 ? new Date(timestamp * 1000) : null
TagDateOf(taggerDateStr) ==
    LET timestamp == ParseIntWord(taggerDateStr) IN
    IF ~timestamp.nan /\ timestamp.n > 0 THEN Date(timestamp.n) ELSE NullDate

\* the message of an annotated tag: subject and body, or the subject, or null
TagMessageOf(isAnnotated, subject, body) ==
    IF ~isAnnotated THEN NULL
    ELSE IF body # "" THEN SubjectAndBody(subject, body)
    ELSE IF subject # "" THEN subject
    ELSE NULL

\* the tag built from one line of at least eight fields
parseTagLine(parts) ==
    LET isAnnotated == parts[2] = "tag" IN
    GitTag(parts[1], parts[3],
           IF isAnnotated /\ parts[4] # "" THEN parts[4] ELSE NULL,
           IF isAnnotated /\ parts[5] # "" THEN StripAngles(parts[5]) ELSE NULL,
           TagDateOf(parts[6]),
           TagMessageOf(isAnnotated, parts[7], parts[8]),
           isAnnotated)

RECURSIVE parseTagLines(_)
parseTagLines(lines) ==
    IF lines = <<>> THEN <<>>
    ELSE (IF Len(Head(lines)) < 8 THEN <<>> ELSE <<parseTagLine(Head(lines))>>)
         \o parseTagLines(Tail(lines))

\* a failed listing gives the empty list
parseGitTags(listing) == IF listing.ok THEN parseTagLines(listing.lines) ELSE <<>>

\* refname | objecttype | objectname | taggername | taggeremail |
\* taggerdate:unix | subject | contents:body.  For a ref that is not a tag
\* object git prints empty tagger fields and the subject of the commit.
TagLinePool ==
    { <<"v1", "tag", "s1", "T", "<t@x.com>", d, "rel", "">> :
        d \in {"1000", "", "0", "abc", "-5"} }
    \cup { <<"v1", "tag", "s1", "T", "<t@x.com>", "1000", "rel", "notes">>,
           <<"v3", "tag", "s1", "", "", "86400", "", "">>,
           <<"v2", "commit", "s2", "", "", "", "init", "">>,
           <<"v4", "commit", "s1", "", "", "", "">> }

TagListings ==
    { [ok |-> ok, lines |-> ls] :
        ok \in BOOLEAN, ls \in UNION { [1..n -> TagLinePool] : n \in 0..MaxTagLines } }

InitTags ==
    /\ Fresh
    /\ bat = NoBatch
    /\ arg \in TagListings
    /\ ret = <<>>
    /\ called = FALSE

ParseGitTagsCall ==
    /\ ~called
    /\ ret' = parseGitTags(arg)
    /\ called' = TRUE
    /\ UNCHANGED <<store, pc, world, locals, ending, trace, stmts, faults, dbBefore,
                   hist, calls, bat, arg>>

NextTags == ParseGitTagsCall

SpecTags == InitTags /\ [][NextTags]_vars

(***************************************************************************)
(* Language detection: getRepoLanguage on the paths ls-files printed.      *)
(***************************************************************************)
\* file.split(".").pop()?.toLowerCase()
ExtOf(file) ==
    CASE file = "README.md" -> "md"
      [] file = "a.js" -> "js"
      [] file = "b.TS" -> "ts"
      [] file = "c.tsx" -> "tsx"
      [] file = "d.ts" -> "ts"
      [] file = "e.js" -> "js"
      [] file = "C" -> "c"
      [] file = "Makefile" -> "makefile"
      [] OTHER -> file

\* ext && ext !== file
HasExt(file) == ExtOf(file) # "" /\ ExtOf(file) # file

languageMap(ext) ==
    CASE ext \in {"ts", "tsx"} -> "TypeScript"
      [] ext \in {"js", "jsx"} -> "JavaScript"
      [] ext = "py" -> "Python"
      [] ext = "go" -> "Go"
      [] ext = "rs" -> "Rust"
      [] ext = "java" -> "Java"
      [] ext = "c" -> "C"
      [] ext = "cpp" -> "C++"
      [] ext = "cs" -> "C#"
      [] ext = "rb" -> "Ruby"
      [] ext = "php" -> "PHP"
      [] ext = "swift" -> "Swift"
      [] ext = "kt" -> "Kotlin"
      [] ext = "scala" -> "Scala"
      [] ext = "sh" -> "Shell"
      [] OTHER -> NULL

RECURSIVE IndexOfExt(_, _, _)
IndexOfExt(counts, ext, i) ==
    IF i > Len(counts) THEN 0
    ELSE IF counts[i].ext = ext THEN i
    ELSE IndexOfExt(counts, ext, i + 1)

\* extCounts[ext] = (extCounts[ext] || 0) + 1, the keys in insertion order
CountExt(counts, file) ==
    IF ~HasExt(file) THEN counts
    ELSE LET i == IndexOfExt(counts, ExtOf(file), 1) IN
         IF i = 0 THEN Append(counts, [ext |-> ExtOf(file), count |-> 1])
         ELSE [counts EXCEPT ![i].count = @ + 1]

RECURSIVE extCountsFrom(_, _)
extCountsFrom(files, counts) ==
    IF files = <<>> THEN counts
    ELSE extCountsFrom(Tail(files), CountExt(counts, Head(files)))

NoPrimary == [maxCount |-> 0, primaryExt |-> ""]

\* a step that lets a later extension with an equal count take over
PrimaryStepLastWins(best, entry) ==
    IF entry.count >= best.maxCount /\ languageMap(entry.ext) # NULL
    THEN [maxCount |-> entry.count, primaryExt |-> entry.ext]
    ELSE best

\* if (count > maxCount && languageMap[ext]) { maxCount = count; primaryExt = ext; }
PrimaryStep(best, entry) ==
    IF entry.count > best.maxCount /\ languageMap(entry.ext) # NULL
    THEN [maxCount |-> entry.count, primaryExt |-> entry.ext]
    ELSE best

RECURSIVE primaryFrom(_, _)
primaryFrom(counts, best) ==
    IF counts = <<>> THEN best
    ELSE primaryFrom(Tail(counts), PrimaryStep(best, Head(counts)))

\* a failed listing gives null
getRepoLanguage(listing) ==
    IF ~listing.ok THEN NULL
    ELSE languageMap(primaryFrom(extCountsFrom(listing.files, <<>>), NoPrimary).primaryExt)

\* tracked paths in the order ls-files prints them
FilePool == <<"C", "Makefile", "README.md", "a.js", "b.TS", "c.tsx", "d.ts", "e.js", "go">>

\* the output split at the line ends: the chosen paths and the empty piece
\* after the last line end
FilesOf(S) ==
    LET Chosen(f) == f \in S IN SelectSeq(FilePool, Chosen) \o <<"">>

FileListings ==
    { [ok |-> ok, files |-> FilesOf(S)] :
        ok \in BOOLEAN,
        S \in { T \in SUBSET { FilePool[i] : i \in DOMAIN FilePool } :
                   Cardinality(T) <= MaxFiles } }

InitLanguage ==
    /\ Fresh
    /\ bat = NoBatch
    /\ arg \in FileListings
    /\ ret = <<>>
    /\ called = FALSE

GetRepoLanguageCall ==
    /\ ~called
    /\ ret' = getRepoLanguage(arg)
    /\ called' = TRUE
    /\ UNCHANGED <<store, pc, world, locals, ending, trace, stmts, faults, dbBefore,
                   hist, calls, bat, arg>>

NextLanguage == GetRepoLanguageCall

SpecLanguage == InitLanguage /\ [][NextLanguage]_vars

(***************************************************************************)
(* Aggregator applied to a list of commits                                 *)
(***************************************************************************)
\* commit.committedAt.toISOString().split("T")[0]: the UTC calendar date
DateOfCommit(c) == toISOString(c.committedAt)[1]

\* a key that leaves the date out
DailyKeyWithoutDate(date, repoName, email) == <<0, repoName, email>>

\* `${date}|${repoName}|${commit.authorEmail}`: the date has a fixed width and
\* the repository name is the same for every key of a call, so two keys are
\* equal exactly when date, name and email are
DailyKey(date, repoName, email) == <<date, repoName, email>>

IndexOfDailyKey(rows, key) ==
    IF \E i \in DOMAIN rows :
          DailyKey(rows[i].date, rows[i].repoName, rows[i].authorEmail) = key
    THEN CHOOSE i \in DOMAIN rows :
          DailyKey(rows[i].date, rows[i].repoName, rows[i].authorEmail) = key
    ELSE 0

\* one iteration of the loop; the Map keeps its keys in insertion order
FoldDailyStat(rows, c, repoName) ==
    LET i == IndexOfDailyKey(rows, DailyKey(DateOfCommit(c), repoName, c.authorEmail)) IN
    IF i = 0
    THEN Append(rows, [date |-> DateOfCommit(c), repoName |-> repoName,
                       authorEmail |-> c.authorEmail, commitsCount |-> 1,
                       additions |-> c.additions, deletions |-> c.deletions,
                       filesChanged |-> c.filesChanged])
    ELSE [rows EXCEPT ![i] =
            [@ EXCEPT !.commitsCount = @ + 1,
                      !.additions = @ + c.additions,
                      !.deletions = @ + c.deletions,
                      !.filesChanged = @ + c.filesChanged]]

\* toISOString throws on an Invalid Date and nothing catches it
RECURSIVE aggregateDailyStatsFrom(_, _, _)
aggregateDailyStatsFrom(rows, cs, repoName) ==
    IF cs = <<>> THEN [threw |-> NoError, rows |-> rows]
    ELSE IF ~Head(cs).committedAt.valid THEN [threw |-> RangeError, rows |-> <<>>]
    ELSE aggregateDailyStatsFrom(FoldDailyStat(rows, Head(cs), repoName), Tail(cs), repoName)

aggregateDailyStats(cs, repoName) == aggregateDailyStatsFrom(<<>>, cs, repoName)

CommitPool == {cA1, cA1b, cB2, cA2, cB2bad}

AggregateInputs == UNION { [1..n -> CommitPool] : n \in 0..MaxCommits }

InitAggregate ==
    /\ Fresh
    /\ bat = NoBatch
    /\ arg \in AggregateInputs
    /\ ret = <<>>
    /\ called = FALSE

AggregateDailyStatsCall(repoName) ==
    /\ ~called
    /\ LET r == aggregateDailyStats(arg, repoName) IN
         ret' = [fn |-> "aggregateDailyStats", repoName |-> repoName,
                 threw |-> r.threw, rows |-> r.rows]
    /\ called' = TRUE
    /\ UNCHANGED <<store, pc, world, locals, ending, trace, stmts, faults, dbBefore,
                   hist, calls, bat, arg>>

AggregateAuthorsCall ==
    /\ ~called
    /\ ret' = [fn |-> "aggregateAuthors", repoName |-> "", threw |-> NoError,
               rows |-> aggregateAuthors(arg)]
    /\ called' = TRUE
    /\ UNCHANGED <<store, pc, world, locals, ending, trace, stmts, faults, dbBefore,
                   hist, calls, bat, arg>>

CalculateSummaryStatsCall ==
    /\ ~called
    /\ LET r == calculateSummaryStats(arg) IN
         ret' = [fn |-> "calculateSummaryStats", repoName |-> "", threw |-> r.threw,
                 rows |-> <<>>, summary |-> r]
    /\ called' = TRUE
    /\ UNCHANGED <<store, pc, world, locals, ending, trace, stmts, faults, dbBefore,
                   hist, calls, bat, arg>>

NextAggregate ==
    \/ \E n \in RepoNames : AggregateDailyStatsCall(n)
    \/ AggregateAuthorsCall
    \/ CalculateSummaryStatsCall

SpecAggregate == InitAggregate /\ [][NextAggregate]_vars

(***************************************************************************)
(* Batch mode: main's loop over the configured repositories                *)
(***************************************************************************)
\* one path of the configuration: what Deno.stat answers for it, the
\* repository behind it, and whether git log --author finds a commit
Entry(stat, w, mine) == [stat |-> stat, world |-> w, mine |-> mine]

BatchEntries ==
    { Entry("missing", NoWorld, FALSE),
      Entry("file", NoWorld, FALSE),
      Entry("dir", World("r1", [Content(NULL, <<>>, <<>>) EXCEPT !.branchOk = FALSE]), FALSE),
      Entry("dir", World("r1", Content(NULL, <<cA1>>, <<>>)), FALSE),
      Entry("dir", World("r1", Content(NULL, <<cA1>>, <<>>)), TRUE),
      Entry("dir", World("r1", Content("TypeScript", <<cA1, cB2bad>>, <<>>)), TRUE),
      Entry("dir", World("r2", Content("TypeScript", <<cA1>>, <<tAnn>>)), TRUE) }

BatchLists == UNION { [1..n -> BatchEntries] : n \in 0..MaxRuns }

\* false on every failure of its two git commands
hasCommitsByAuthor(e) == e.world.branchOk /\ e.world.logOk /\ e.mine

\* the entries the loop hands to etlGitRepo
RunsEtl(e) == e.stat = "dir" /\ hasCommitsByAuthor(e)

\* the loop body up to the call of etlGitRepo
BatchVisit ==
    /\ bat.phase = "loop"
    /\ bat.i <= Len(bat.list)
    /\ pc = "idle"
    /\ LET e == bat.list[bat.i]
           seen == [bat EXCEPT !.visited = Append(bat.visited, bat.i)] IN
         bat' = CASE e.stat = "missing" ->
                       [seen EXCEPT !.failCount = @ + 1, !.i = @ + 1]
                  [] e.stat = "file" ->
                       [seen EXCEPT !.skippedCount = @ + 1, !.i = @ + 1]
                  [] e.stat = "dir" /\ ~hasCommitsByAuthor(e) ->
                       [seen EXCEPT !.skippedCount = @ + 1, !.i = @ + 1]
                  [] OTHER -> [seen EXCEPT !.phase = "etl"]
    /\ UNCHANGED <<store, pc, world, locals, ending, trace, stmts, faults, dbBefore,
                   hist, calls, arg, ret, called>>

\* await etlGitRepo(repoPath)
BatchEtl ==
    /\ bat.phase = "etl"
    /\ Len(hist) = bat.ran
    /\ StartRun(bat.list[bat.i].world)

\* a loop whose catch gives up on the remaining repositories
BatchAfterBreaks ==
    /\ bat.phase = "etl"
    /\ pc = "idle"
    /\ Len(hist) = bat.ran + 1
    /\ bat' = IF hist[Len(hist)].outcome = "returned"
              THEN [bat EXCEPT !.successCount = @ + 1, !.i = @ + 1, !.ran = @ + 1,
                               !.phase = "loop"]
              ELSE [bat EXCEPT !.failCount = @ + 1, !.i = Len(bat.list) + 1,
                               !.ran = @ + 1, !.phase = "loop"]
    /\ UNCHANGED <<store, pc, world, locals, ending, trace, stmts, faults, dbBefore,
                   hist, calls, arg, ret, called>>

\* etlGitRepo returned: successCount++; it raised: the catch counts the failure
BatchAfter ==
    /\ bat.phase = "etl"
    /\ pc = "idle"
    /\ Len(hist) = bat.ran + 1
    /\ bat' = IF hist[Len(hist)].outcome = "returned"
              THEN [bat EXCEPT !.successCount = @ + 1, !.i = @ + 1, !.ran = @ + 1,
                               !.phase = "loop"]
              ELSE [bat EXCEPT !.failCount = @ + 1, !.i = @ + 1, !.ran = @ + 1,
                               !.phase = "loop"]
    /\ UNCHANGED <<store, pc, world, locals, ending, trace, stmts, faults, dbBefore,
                   hist, calls, arg, ret, called>>

InitBatch ==
    /\ Fresh
    /\ bat \in { [NoBatch EXCEPT !.list = l, !.i = 1, !.phase = "loop"] : l \in BatchLists }
    /\ arg = <<>>
    /\ ret = <<>>
    /\ called = FALSE

NextBatch ==
    \/ BatchVisit
    \/ BatchEtl
    \/ GetRepoInfo
    \/ GetRepoLanguage
    \/ ParseGitLog
    \/ AggregateAuthors
    \/ ParseGitTags
    \/ WithTransactionBegin
    \/ InsertCommitsStep
    \/ InsertAuthorsStep
    \/ InsertFileChangesStep
    \/ InsertTagsStep
    \/ UpsertRepositoryMetadataStep
    \/ WithTransactionCommit
    \/ WithTransactionCatch
    \/ CalculateSummaryStats
    \/ Return
    \/ BatchAfter

SpecBatch == InitBatch /\ [][NextBatch]_vars

(***************************************************************************)
(* Properties                                                              *)
(***************************************************************************)
Range(q) == { q[i] : i \in DOMAIN q }
CountOf(q, e) == Cardinality({ i \in DOMAIN q : q[i] = e })
ExternalCalls == {"getRepoInfo", "getRepoLanguage", "parseGitLog", "parseGitTags"}
Last(q) == q[Len(q)]

\* C1: when the operation passed to withTransaction raised, every table is,
\* once withTransaction has finished, exactly as it was before the
\* transaction began.
C1_RollbackRestoresStore ==
    (pc = "done" /\ thrown # NoError) => db = dbBefore

\* the operation raised after statements of it had changed the store
C1_Witness ==
    /\ pc = "done"
    /\ thrown # NoError
    /\ stmts >= 2
    /\ Len(dbBefore.commits) > 0

C3_AtMostOneTransaction ==
    /\ openTx \in {0, 1}
    /\ pc = "withTransaction" => openTx = 0
    /\ pc \in {"idle", "done"} => openTx = 0
    /\ CountOf(trace, "begin") <= 1
    /\ CountOf(trace, "begin") =
         openTx + CountOf(trace, "commit") + CountOf(trace, "rollback")

\* a second run's transaction is open, the first run's was committed
C3_Witness ==
    /\ openTx = 1
    /\ Len(hist) = 1
    /\ hist[1].after.commits > 0
    /\ stmts > 0

\* C10: a failure to resolve the branch or to read the log is raised with
\* no transaction opened and no write issued, and every external call of a
\* run completes before its transaction begins.
C10_ExternalCallsBeforeTransaction ==
    /\ (pc = "done" /\ ~world.branchOk) =>
          (outcome = "raised" /\ error = "Failed to get branch")
    /\ (pc = "done" /\ world.branchOk /\ ~world.logOk) =>
          (outcome = "raised" /\ error = "Failed to run git log")
    /\ (pc = "done" /\ (~world.branchOk \/ ~world.logOk)) =>
          /\ "begin" \notin Range(trace)
          /\ stmts = 0
          /\ openTx = 0
          /\ db = dbBefore
    /\ "begin" \in Range(trace) =>
          /\ ExternalCalls \subseteq Range(trace)
          /\ \A i, j \in DOMAIN trace :
                (trace[i] = "begin" /\ trace[j] \in ExternalCalls) => j < i

\* the log read failed over a store that an earlier run filled
C10_Witness ==
    /\ pc = "done"
    /\ world.branchOk
    /\ ~world.logOk
    /\ Len(db.commits) > 0

\* C4: a second run of the pipeline on an unchanged repository leaves each
\* table with as many rows as after the first run (the engine failing no
\* statement in either run).
C4_RerunKeepsRowCounts ==
    \A k \in 2..Len(hist) :
        (/\ hist[k].world = hist[k - 1].world
         /\ hist[k].faults = 0
         /\ hist[k - 1].faults = 0)
        => hist[k].after = hist[k - 1].after

\* two committed runs on the same repository, with file changes and a tag
C4_Witness ==
    /\ Len(hist) = 2
    /\ hist[2].world = hist[1].world
    /\ hist[1].faults = 0
    /\ hist[2].faults = 0
    /\ hist[2].outcome = "returned"
    /\ hist[2].after.file_changes > 0
    /\ hist[2].after.tags > 0

RowsOf(tbl, repoName) == { tbl[i] : i \in { j \in DOMAIN tbl : tbl[j].repo_name = repoName } }
AllValid(log) == \A i \in DOMAIN log : log[i].committedAt.valid

\* C5: after a re-run on a repository whose data changed, the commit rows
\* stored for it are exactly the commits of the new log, and its
\* repos.total_commits is the number of those rows.
C5_StoreReconciledWithLog ==
    (/\ pc = "idle"
     /\ Len(hist) = 2
     /\ hist[1].world.name = hist[2].world.name
     /\ hist[1].world # hist[2].world
     /\ hist[1].outcome = "returned"
     /\ hist[2].outcome = "returned"
     /\ hist[1].faults = 0
     /\ hist[2].faults = 0
     /\ hist[2].world.log # <<>>
     /\ AllValid(hist[1].world.log)
     /\ AllValid(hist[2].world.log))
    => LET name == hist[2].world.name
           log == hist[2].world.log
       IN /\ RowsOf(db.commits, name) = { CommitRow(name, log[i]) : i \in DOMAIN log }
          /\ \A i \in DOMAIN db.repos :
                db.repos[i].name = name =>
                  db.repos[i].total_commits = Cardinality(RowsOf(db.commits, name))

\* the rows the fold of a log gives, by email
AuthorTotal(tbl, email) ==
    IF \E i \in DOMAIN tbl : tbl[i].email = email
    THEN tbl[CHOOSE i \in DOMAIN tbl : tbl[i].email = email].total_commits
    ELSE 0

\* C8: insertAuthors sets an author's total_commits to the stored value plus
\* the count aggregated in this run; after k returned runs on an unchanged
\* repository, from an empty store, an author with n commits has k * n.
C8_AuthorTotalAccumulates ==
    /\ pc = "insertFileChanges" =>
          \A i \in DOMAIN authors :
              AuthorTotal(db.authors, authors[i].email) =
                  AuthorTotal(dbBefore.authors, authors[i].email) + authors[i].totalCommits
    /\ (/\ pc = "idle"
        /\ \A k \in DOMAIN hist : /\ hist[k].world = hist[1].world
                                   /\ hist[k].outcome = "returned")
       => \A k \in DOMAIN hist :
            LET as == aggregateAuthors(hist[k].world.log) IN
            \A i \in DOMAIN as :
                AuthorTotal(db.authors, as[i].email) = Len(hist) * as[i].totalCommits

\* the second returned run on the same repository: an author of two commits
\* is stored with four
C8_Witness ==
    /\ pc = "idle"
    /\ Len(hist) = 2
    /\ hist[1].world = hist[2].world
    /\ hist[1].outcome = "returned"
    /\ hist[2].outcome = "returned"
    /\ \E i \in DOMAIN db.authors : db.authors[i].total_commits = 4

(***************************************************************************)
(* What the calls made so far have written, read off the call history      *)
(***************************************************************************)
\* the records of one insertCommits call whose statement ran and succeeded
WrittenBy(call) ==
    { i \in DOMAIN call.log : call.log[i].committedAt.valid /\ i # call.f }

\* the last call, and the last record of it, that wrote the key; <<0, 0>> if none
LastWriteOf(repoName, sha) ==
    LET hits == UNION { { <<k, i>> : i \in { j \in WrittenBy(calls[k]) :
                                              calls[k].log[j].sha = sha } } :
                        k \in { m \in DOMAIN calls :
                                  /\ calls[m].fn = "insertCommits"
                                  /\ calls[m].repoName = repoName } }
    IN IF hits = {} THEN <<0, 0>>
       ELSE CHOOSE h \in hits :
              \A g \in hits : g[1] < h[1] \/ (g[1] = h[1] /\ g[2] <= h[2])

Shas == {"s1", "s2"}

\* C6: after any sequence of insertCommits calls the commits table holds at
\* most one row per (repo_name, sha), and the row's mutable fields are those
\* of the commit most recently written with that key.
C6_CommitRowIsLastWritten ==
    /\ \A i, j \in DOMAIN db.commits :
          (db.commits[i].repo_name = db.commits[j].repo_name
           /\ db.commits[i].sha = db.commits[j].sha) => i = j
    /\ \A n \in RepoNames, sha \in Shas :
          LET h == LastWriteOf(n, sha) IN
          IF h = <<0, 0>> THEN ~HasCommit(db.commits, n, sha)
          ELSE LET c == calls[h[1]].log[h[2]] IN
               \E i \in DOMAIN db.commits :
                  LET row == db.commits[i] IN
                  /\ row.repo_name = n
                  /\ row.sha = sha
                  /\ row.author_email = c.authorEmail
                  /\ row.author_name = c.authorName
                  /\ row.committed_at = toISOString(c.committedAt)
                  /\ row.message = c.message
                  /\ row.additions = c.additions
                  /\ row.deletions = c.deletions
                  /\ row.files_changed = c.filesChanged
                  /\ row.is_merge = (IF c.isMerge THEN 1 ELSE 0)
                  /\ row.branch = c.branch

\* a commit written on "main" is written again on "dev" with other metadata
C6_Witness ==
    /\ Len(calls) = 2
    /\ calls[1].fn = "insertCommits"
    /\ calls[2].fn = "insertCommits"
    /\ \E i \in DOMAIN db.commits :
          /\ db.commits[i].sha = "s1"
          /\ db.commits[i].branch = "dev"
          /\ LastWriteOf(db.commits[i].repo_name, "s1") = <<2, 1>>
          /\ LastWriteOf(db.commits[i].repo_name, "s2") = <<1, 1>>

\* the rows one insertFileChanges call ran a statement for: all of them, or
\* those before the statement the engine failed
AttemptedBy(call) ==
    LET all == Flatten(call.repoName, call.log)
    IN IF call.f = 0 THEN all ELSE SubSeq(all, 1, call.f - 1)

RECURSIVE AttemptedFileChanges(_)
AttemptedFileChanges(cs) ==
    IF cs = <<>> THEN <<>>
    ELSE (IF Head(cs).fn = "insertFileChanges" THEN AttemptedBy(Head(cs)) ELSE <<>>)
         \o AttemptedFileChanges(Tail(cs))

SameFileKey(r, q) ==
    r.repo_name = q.repo_name /\ r.sha = q.sha /\ r.file_path = q.file_path

\* C7: after any sequence of insertFileChanges calls the file_changes table
\* holds at most one row per (repo_name, sha, file_path), also when a log
\* lists a path twice; an insert with a stored key raises no error and the
\* row keeps the additions and deletions first written.
C7_FileChangeRowIsFirstWritten ==
    LET att == AttemptedFileChanges(calls) IN
    /\ \A i, j \in DOMAIN db.file_changes :
          SameFileKey(db.file_changes[i], db.file_changes[j]) => i = j
    /\ \A k \in DOMAIN att :
          LET first == CHOOSE m \in DOMAIN att :
                         /\ SameFileKey(att[m], att[k])
                         /\ \A m2 \in DOMAIN att : SameFileKey(att[m2], att[k]) => m <= m2
          IN \E i \in DOMAIN db.file_changes :
                /\ SameFileKey(db.file_changes[i], att[k])
                /\ db.file_changes[i].additions = att[first].additions
                /\ db.file_changes[i].deletions = att[first].deletions
    /\ Len(db.file_changes) <= Len(att)
    /\ \A k \in DOMAIN calls :
          (calls[k].fn = "insertFileChanges" /\ calls[k].f = 0) => calls[k].threw = NoError

\* a log that lists file.ts twice for s2 is inserted, then the amended s1 is
\* inserted over the stored s1
C7_Witness ==
    /\ Len(calls) = 2
    /\ calls[1].fn = "insertFileChanges"
    /\ calls[2].fn = "insertFileChanges"
    /\ calls[1].f = 0
    /\ calls[2].f = 0
    /\ calls[1].repoName = calls[2].repoName
    /\ calls[1].log = <<cB2, cA1>>
    /\ calls[2].log = <<cA1b>>
    /\ Len(db.file_changes) = 2

\* the authors one insertAuthors call upserted: those before the first that
\* cannot be written
UpsertedBy(call) ==
    LET as == aggregateAuthors(call.log)
        bad == { i \in DOMAIN as : \/ ~as[i].firstCommitAt.valid
                                    \/ ~as[i].lastCommitAt.valid
                                    \/ i = call.f }
    IN { as[i] : i \in { j \in DOMAIN as : \A b \in bad : j < b } }

UpsertedFor(email) ==
    UNION { { a \in UpsertedBy(calls[k]) : a.email = email } :
            k \in { j \in DOMAIN calls : calls[j].fn = "insertAuthors" } }

Emails == {"a@x.com", "b@x.com"}

\* C9: after any sequence of insertAuthors calls the stored first_commit_at
\* of an email is the minimum of the first-seen timestamps upserted for it,
\* its last_commit_at the maximum of the last-seen ones, and the first is
\* not after the last.
C9_AuthorDatesAreMinAndMax ==
    /\ \A e \in Emails :
          LET ups == UpsertedFor(e) IN
          IF ups = {} THEN \A i \in DOMAIN db.authors : db.authors[i].email # e
          ELSE LET lo == CHOOSE a \in ups : \A b \in ups : a.firstCommitAt.t <= b.firstCommitAt.t
                   hi == CHOOSE a \in ups : \A b \in ups : a.lastCommitAt.t >= b.lastCommitAt.t
               IN \E i \in DOMAIN db.authors :
                    /\ db.authors[i].email = e
                    /\ db.authors[i].first_commit_at = toISOString(lo.firstCommitAt)
                    /\ db.authors[i].last_commit_at = toISOString(hi.lastCommitAt)
    /\ \A i \in DOMAIN db.authors :
          ~TextLess(db.authors[i].last_commit_at, db.authors[i].first_commit_at)

\* an author stored with a later day is upserted with an earlier one: the
\* stored range grows at the lower end only
C9_Witness ==
    /\ Len(calls) = 2
    /\ calls[1].fn = "insertAuthors"
    /\ calls[2].fn = "insertAuthors"
    /\ calls[1].log = <<cA1b>>
    /\ calls[2].log = <<cA2, cA1>>
    /\ calls[2].f = 0
    /\ \E i \in DOMAIN db.authors :
          /\ db.authors[i].first_commit_at = <<0, 1000>>
          /\ db.authors[i].last_commit_at = <<1, 3600>>

\* the repositories of a list that the loop hands to etlGitRepo, in list order
RECURSIVE EtlWorlds(_)
EtlWorlds(l) ==
    IF l = <<>> THEN <<>>
    ELSE (IF RunsEtl(Head(l)) THEN <<Head(l).world>> ELSE <<>>) \o EtlWorlds(Tail(l))

BatchFinished == bat.phase = "loop" /\ bat.i = Len(bat.list) + 1

\* the loop visits the list front to back, one repository at a time
BatchInOrder ==
    /\ bat.visited = [k \in 1..Len(bat.visited) |-> k]
    /\ Len(bat.visited) = IF bat.phase = "etl" THEN bat.i ELSE bat.i - 1
    /\ bat.i <= Len(bat.list) + 1
    /\ pc # "idle" => bat.phase = "etl"
    /\ Len(hist) <= Len(EtlWorlds(SubSeq(bat.list, 1, Len(bat.visited))))
    /\ \A k \in 1..Len(hist) : hist[k].world = EtlWorlds(bat.list)[k]
    /\ bat.successCount + bat.failCount + bat.skippedCount
         = IF bat.phase = "etl" THEN bat.i - 1 ELSE Len(bat.visited)
    /\ bat.ran <= Len(hist)
    /\ bat.failCount >= Cardinality({ k \in 1..bat.ran : hist[k].outcome = "raised" })
    /\ bat.successCount = Cardinality({ k \in 1..bat.ran : hist[k].outcome = "returned" })
    /\ ~BatchFinished => ENABLED NextBatch
    /\ BatchFinished => /\ Len(bat.visited) = Len(bat.list)
                        /\ Len(hist) = Len(EtlWorlds(bat.list))

\* C11: in batch mode a failure raised by one repository's ETL never
\* prevents the remaining repositories from being processed: every
\* repository of the list gets its loop iteration exactly once, in list
\* order (the loop index only ever moves to the next entry, whatever the
\* ETL's outcome, and the loop cannot stop before the end of the list), and
\* one repository's ETL has completed or failed before the next begins.
C11_BatchAttemptsEveryRepository ==
    /\ [](bat.phase # "none" => BatchInOrder)
    /\ [][bat'.i # bat.i => (bat'.i = bat.i + 1 /\ pc = "idle" /\ pc' = "idle")]_vars

\* the first repository's ETL raised and was rolled back, the second's succeeded
C11_Witness ==
    /\ BatchFinished
    /\ Len(hist) = 2
    /\ hist[1].outcome = "raised"
    /\ hist[2].outcome = "returned"
    /\ bat.failCount = 1
    /\ bat.successCount = 1

\* the records a direct call was given
Records(call) ==
    CASE call.fn = "insertCommits" -> Len(call.log)
      [] call.fn = "insertAuthors" -> Len(aggregateAuthors(call.log))
      [] call.fn = "insertFileChanges" -> Len(Flatten(call.repoName, call.log))

\* the records whose write the call attempted: those written, those the
\* engine failed and the one whose date could not be formatted
Attempted(call) ==
    CASE call.fn = "insertCommits" ->
           LET r == insertCommits(<<>>, call.repoName, call.log, call.f)
           IN r.processed + r.errors
      [] call.fn = "insertAuthors" ->
           LET r == insertAuthors(<<>>, aggregateAuthors(call.log), call.f)
           IN r.ran + r.faults + (IF r.threw = RangeError THEN 1 ELSE 0)
      [] call.fn = "insertFileChanges" ->
           LET r == insertFileChanges(<<>>, call.repoName, call.log, call.f)
           IN r.ran + r.faults

\* C12: for every entity insert loop of the Upsert Engine, when the write of
\* one record fails, the failure is counted (the call does not raise) and
\* the loop still attempts the write of every remaining record of the call.
C12_LoopAttemptsEveryRecord ==
    \A k \in DOMAIN calls :
        /\ calls[k].threw = NoError
        /\ Attempted(calls[k]) = Records(calls[k])

\* the run read a log in which some commit's timestamp line was not an integer
LogHasInvalidField == \E i \in DOMAIN world.log : ~world.log[i].committedAt.valid

\* C13: a single commit block with an invalid field (a timestamp line that
\* is not an integer) never aborts the run: when git answered and the
\* engine failed no statement, etlGitRepo does not raise, its transaction
\* is not rolled back, and every commit with a valid timestamp is stored.
C13_InvalidFieldNeverAborts ==
    (pc = "done" /\ world.branchOk /\ world.logOk /\ faults = 0 /\ LogHasInvalidField) =>
        /\ outcome = "returned"
        /\ "rollback" \notin Range(trace)
        /\ \A i \in DOMAIN world.log :
              world.log[i].committedAt.valid =>
                  HasCommit(db.commits, world.name, world.log[i].sha)

\* the steps of etlGitRepo that consume the parsed commits
Consumers == {"aggregateAuthors", "parseGitTags", "withTransaction", "insertCommits",
              "insertAuthors", "insertFileChanges", "insertTags",
              "upsertRepositoryMetadata"}

\* C14: in a pipeline run the Validator is applied to every parsed commit
\* before aggregation and before any upsert, and the Aggregator and the
\* Upsert Engine receive only commits for which the Validator reports no
\* violation.
C14_OnlyValidCommitsConsumed ==
    pc \in Consumers => \A i \in DOMAIN commits : validateCommit(commits[i]) = <<>>

\* the lines of a block as the parser's split of the text leaves them: the
\* newline before the next marker (or the end of the text) adds an empty one
AsSplit(block) == Append(block, <<>>)

\* six field lines, then the sentinel, and no marker among the fields
WellFormed(block) ==
    /\ Len(block) >= 7
    /\ block[7] = <<COMMIT_MSG_END>>
    /\ Len(block[1]) = 1
    /\ \A i \in 1..6 : \A k \in DOMAIN block[i] :
          block[i][k] \notin {COMMIT_START, COMMIT_MSG_END}

\* C15: parseGitLog on log text made of N well-formed blocks returns exactly
\* N commit records, in the order of the blocks in the text, and each
\* record's isMerge is true if and only if its parent-hash line lists more
\* than one parent.
C15_OneCommitPerWellFormedBlock ==
    (called /\ \A k \in DOMAIN arg.blocks : WellFormed(arg.blocks[k])) =>
        /\ Len(ret) = Len(arg.blocks)
        /\ \A k \in DOMAIN arg.blocks :
              /\ ret[k].sha = arg.blocks[k][1]
              /\ ret[k].authorEmail = arg.blocks[k][2]
              /\ ret[k].message = arg.blocks[k][6]
              /\ ret[k].isMerge = (Len(arg.blocks[k][5]) > 1)

\* a merge commit parsed after a commit with one parent
C15_Witness ==
    /\ called
    /\ Len(arg.blocks) = 2
    /\ \A k \in DOMAIN arg.blocks : WellFormed(arg.blocks[k])
    /\ Len(arg.blocks[1][5]) = 1
    /\ Len(arg.blocks[2][5]) = 2
    /\ Len(ret) = 2
    /\ ~ret[1].isMerge
    /\ ret[2].isMerge

\* the blocks the claim lets through: six lines or more, and the sentinel
Emitting(block) ==
    /\ Len(AsSplit(block)) >= 6
    /\ \E i \in DOMAIN block : block[i] = <<COMMIT_MSG_END>>

\* C16: parseGitLog emits no commit record for a block that has fewer than
\* six lines and none for a block that lacks the COMMIT_MSG_END sentinel
\* line; the other blocks of the text are still parsed: the records are
\* those of the remaining blocks, in order.
C16_ShortOrUnterminatedBlockDropped ==
    called =>
        LET kept == SelectSeq(arg.blocks, Emitting) IN
        /\ Len(ret) = Len(kept)
        /\ \A k \in DOMAIN kept : ret[k].sha = kept[k][1]

\* the commits of one author on one UTC date
OnDay(cs, date, email) ==
    { i \in DOMAIN cs : DateOfCommit(cs[i]) = date /\ cs[i].authorEmail = email }

RECURSIVE SumOver(_, _, _)
\* the sum of one field over the commits at the indices of a set
SumOver(cs, idx, field) ==
    IF idx = {} THEN 0
    ELSE LET i == CHOOSE j \in idx : TRUE
         IN cs[i][field] + SumOver(cs, idx \ {i}, field)

\* C17: aggregateDailyStats returns exactly one row per distinct (UTC
\* calendar date, repo name, author email) occurring among the commits,
\* whose commitsCount is the number of, and whose additions, deletions and
\* filesChanged are the sums over, exactly the commits of that author on
\* that UTC date; no commit is counted in two rows or in none.
C17_DailyStatsPartitionCommits ==
    (called /\ ret.fn = "aggregateDailyStats" /\ AllValid(arg)) =>
        /\ ret.threw = NoError
        /\ \A i, j \in DOMAIN ret.rows :
              (ret.rows[i].date = ret.rows[j].date
               /\ ret.rows[i].authorEmail = ret.rows[j].authorEmail) => i = j
        /\ { <<ret.rows[i].date, ret.rows[i].repoName, ret.rows[i].authorEmail>> :
               i \in DOMAIN ret.rows }
             = { <<DateOfCommit(arg[k]), ret.repoName, arg[k].authorEmail>> :
                   k \in DOMAIN arg }
        /\ \A i \in DOMAIN ret.rows :
              LET idx == OnDay(arg, ret.rows[i].date, ret.rows[i].authorEmail) IN
              /\ ret.rows[i].commitsCount = Cardinality(idx)
              /\ ret.rows[i].additions = SumOver(arg, idx, "additions")
              /\ ret.rows[i].deletions = SumOver(arg, idx, "deletions")
              /\ ret.rows[i].filesChanged = SumOver(arg, idx, "filesChanged")

\* an author's two commits of one date, with another author's commit of the
\* next date between them: two rows, the first counting two commits
C17_Witness ==
    /\ called
    /\ ret.fn = "aggregateDailyStats"
    /\ arg = <<cA1, cB2, cA2>>
    /\ Len(ret.rows) = 2
    /\ ret.rows[1].commitsCount = 2
    /\ ret.rows[1].additions = 9

\* the list is in log order: no commit is more recent than one before it
MostRecentFirst(cs) ==
    /\ AllValid(cs)
    /\ \A i, j \in DOMAIN cs : i < j => cs[i].committedAt.t > cs[j].committedAt.t

\* C20: latest name wins: for commits supplied in log order (most recent
\* first), the display name of each Author produced by aggregateAuthors is
\* the author name carried by that author's most recent commit, the one
\* with the greatest commit timestamp.
C20_LatestNameWins ==
    (called /\ ret.fn = "aggregateAuthors" /\ MostRecentFirst(arg)) =>
        \A i \in DOMAIN ret.rows :
            \E k \in DOMAIN arg :
                /\ arg[k].authorEmail = ret.rows[i].email
                /\ \A j \in DOMAIN arg :
                      arg[j].authorEmail = ret.rows[i].email =>
                          arg[j].committedAt.t <= arg[k].committedAt.t
                /\ ret.rows[i].name = arg[k].authorName

RepoRows(name) == { i \in DOMAIN db.repos : db.repos[i].name = name }

\* the greatest commit timestamp of a list, as the text stored for it
RECURSIVE MaxCommittedAt(_)
MaxCommittedAt(cs) ==
    IF Len(cs) = 1 THEN toISOString(cs[1].committedAt)
    ELSE SqlMax(toISOString(Head(cs).committedAt), MaxCommittedAt(Tail(cs)))

LastCallReturned(fn) ==
    /\ calls # <<>>
    /\ Last(calls).fn = fn
    /\ Last(calls).threw = NoError

\* C18 as stated: after upsertRepositoryMetadata there is exactly one repos
\* row for the repository name, every attribute of it is determined by this
\* run's inputs alone, and last_commit_at is the most recent (maximum)
\* commit timestamp of the parsed commits.
C18_LastCommitAtIsMaximum ==
    (LastCallReturned("upsertRepositoryMetadata") /\ AllValid(Last(calls).log)) =>
        LET c == Last(calls) IN
        /\ Cardinality(RepoRows(c.repoName)) = 1
        /\ \A i \in RepoRows(c.repoName) :
              db.repos[i] = [name |-> c.repoName, language |-> c.language,
                             is_archived |-> 0,
                             last_commit_at |-> MaxCommittedAt(c.log),
                             total_commits |-> Len(c.log)]

\* C18, amended: after upsertRepositoryMetadata there is exactly one repos
\* row for the repository name and every attribute of it is determined by
\* this run's inputs alone, independent of the values stored before the
\* call; last_commit_at is the commit timestamp of the first commit of the
\* parsed log (the most recent in log order).
C18_RepoRowIsThisRunsInput ==
    LastCallReturned("upsertRepositoryMetadata") =>
        LET c == Last(calls) IN
        /\ Cardinality(RepoRows(c.repoName)) = 1
        /\ \A i \in RepoRows(c.repoName) :
              db.repos[i] = [name |-> c.repoName, language |-> c.language,
                             is_archived |-> 0,
                             last_commit_at |-> toISOString(c.log[1].committedAt),
                             total_commits |-> Len(c.log)]

\* a second call for the same repository with another language, another
\* first commit and another number of commits
C18_Witness ==
    /\ Len(calls) = 2
    /\ calls[1].fn = "upsertRepositoryMetadata"
    /\ LastCallReturned("upsertRepositoryMetadata")
    /\ calls[1].threw = NoError
    /\ calls[1].repoName = calls[2].repoName
    /\ calls[1].language # calls[2].language
    /\ calls[1].log[1] # calls[2].log[1]
    /\ Len(calls[1].log) # Len(calls[2].log)

TagRows(repoName, tagName) ==
    { i \in DOMAIN db.tags :
        db.tags[i].repo_name = repoName /\ db.tags[i].tag_name = tagName }

\* C19: after insertTags there is exactly one tags row per (repo_name,
\* tag_name) of the input, and its target sha, tagger name, tagger email,
\* tag date, message and annotated flag equal those of the input tag
\* regardless of the previously stored row (a tag that changed from
\* annotated to lightweight has its tagger fields and message overwritten
\* with null).
C19_TagRowIsInputTag ==
    LastCallReturned("insertTags") =>
        LET c == Last(calls) IN
        \A k \in DOMAIN c.tags :
            /\ Cardinality(TagRows(c.repoName, c.tags[k].tagName)) = 1
            /\ \A i \in TagRows(c.repoName, c.tags[k].tagName) :
                  db.tags[i] = TagRow(c.repoName, c.tags[k])

\* the tag stored as annotated is written again as a lightweight tag
C19_Witness ==
    /\ Len(calls) = 2
    /\ calls[1].fn = "insertTags"
    /\ calls[1].threw = NoError
    /\ LastCallReturned("insertTags")
    /\ calls[1].repoName = calls[2].repoName
    /\ calls[1].tags = <<tAnn>>
    /\ calls[2].tags = <<tLight>>
    /\ \A i \in TagRows(calls[2].repoName, "v1") :
          /\ db.tags[i].tagger_name = NULL
          /\ db.tags[i].is_annotated = 0

\* the input commits of one email
OfEmail(cs, email) == { k \in DOMAIN cs : cs[k].authorEmail = email }

\* the greatest element of a non-empty set of numbers
MaxOf(S) == CHOOSE x \in S : \A y \in S : y <= x
MinOf(S) == CHOOSE x \in S : \A y \in S : x <= y

\* C21: aggregateAuthors returns exactly one Author per distinct author
\* email of the input; its totalCommits is the number of input commits with
\* that email, its firstCommitAt is the minimum and its lastCommitAt the
\* maximum timestamp among them (hence firstCommitAt <= lastCommitAt and
\* totalCommits >= 1), and its name is that of the last commit with that
\* email in input order.
C21_OneAuthorPerEmail ==
    (called /\ ret.fn = "aggregateAuthors" /\ AllValid(arg)) =>
        /\ \A i, j \in DOMAIN ret.rows : ret.rows[i].email = ret.rows[j].email => i = j
        /\ { ret.rows[i].email : i \in DOMAIN ret.rows }
             = { arg[k].authorEmail : k \in DOMAIN arg }
        /\ \A i \in DOMAIN ret.rows :
              LET idx == OfEmail(arg, ret.rows[i].email)
                  ts == { arg[k].committedAt.t : k \in idx }
              IN /\ ret.rows[i].totalCommits = Cardinality(idx)
                 /\ ret.rows[i].totalCommits >= 1
                 /\ ret.rows[i].firstCommitAt = Date(MinOf(ts))
                 /\ ret.rows[i].lastCommitAt = Date(MaxOf(ts))
                 /\ ret.rows[i].firstCommitAt.t <= ret.rows[i].lastCommitAt.t
                 /\ ret.rows[i].name = arg[MaxOf(idx)].authorName

\* an author's oldest commit between two later ones, under three names
C21_Witness ==
    /\ called
    /\ ret.fn = "aggregateAuthors"
    /\ arg = <<cA2, cA1, cA1b>>
    /\ Len(ret.rows) = 1
    /\ ret.rows[1].totalCommits = 3
    /\ ret.rows[1].firstCommitAt = Date(1000)
    /\ ret.rows[1].lastCommitAt = Date(90000)
    /\ ret.rows[1].name = "A2"

\* the UTC calendar dates of a list's commits
DatesOf(cs) == { DateOfCommit(cs[k]) : k \in DOMAIN cs }

\* log order: no commit is more recent than one before it
NonIncreasing(cs) ==
    /\ AllValid(cs)
    /\ \A i, j \in DOMAIN cs : i < j => cs[i].committedAt.t >= cs[j].committedAt.t

\* C22 as stated: calculateSummaryStats returns a date range whose 'from' is
\* the minimum and whose 'to' is the maximum UTC calendar date among the
\* commits, so from <= to for every non-empty commit list; for an empty
\* list both bounds are the empty string.
C22_RangeIsMinimumAndMaximum ==
    (called /\ ret.fn = "calculateSummaryStats" /\ AllValid(arg)) =>
        /\ ret.threw = NoError
        /\ IF arg = <<>>
           THEN ret.summary.dateRange = [from |-> EmptyString, to |-> EmptyString]
           ELSE /\ ret.summary.dateRange.from = <<MinOf(DatesOf(arg))>>
                /\ ret.summary.dateRange.to = <<MaxOf(DatesOf(arg))>>
                /\ ret.summary.dateRange.from[1] <= ret.summary.dateRange.to[1]

\* C22, amended: calculateSummaryStats returns a date range whose 'from' is
\* the UTC calendar date of the last commit of the list and whose 'to' is
\* that of the first; on a list in log order (most recent first) these are
\* the minimum and the maximum date among the commits, and from <= to; for
\* an empty list both bounds are the empty string.
C22_RangeIsLastAndFirst ==
    (called /\ ret.fn = "calculateSummaryStats" /\ AllValid(arg)) =>
        /\ ret.threw = NoError
        /\ IF arg = <<>>
           THEN ret.summary.dateRange = [from |-> EmptyString, to |-> EmptyString]
           ELSE /\ ret.summary.dateRange.from = DateText(arg[Len(arg)])
                /\ ret.summary.dateRange.to = DateText(arg[1])
                /\ NonIncreasing(arg) =>
                      /\ ret.summary.dateRange.from = <<MinOf(DatesOf(arg))>>
                      /\ ret.summary.dateRange.to = <<MaxOf(DatesOf(arg))>>
                      /\ ret.summary.dateRange.from[1] <= ret.summary.dateRange.to[1]

\* three commits in log order that span two dates
C22_Witness ==
    /\ called
    /\ ret.fn = "calculateSummaryStats"
    /\ arg = <<cA1b, cB2, cA1>>
    /\ ret.summary.dateRange = [from |-> <<0>>, to |-> <<1>>]
    /\ ret.summary.totalCommits = 3

IsStatLine(line) == Len(line) >= 3

\* the stat lines git printed for a well-formed block
StatLines(block) == SelectSeq(SubSeq(block, 8, Len(block)), IsStatLine)

\* what a stat field contributes to a total: nothing for the binary marker
Contribution(w) == IF w = "-" THEN 0 ELSE ParseIntWord(w).n

RECURSIVE SumContributions(_, _)
SumContributions(sl, col) ==
    IF sl = <<>> THEN 0 ELSE Contribution(Head(sl)[col]) + SumContributions(Tail(sl), col)

\* C23: in parseGitLog a stat line whose additions or deletions field is the
\* binary-file marker '-' adds 0 to the commit's additions and deletions
\* totals, but still increments filesChanged by one and yields one
\* FileChange record (with 0 additions and 0 deletions) for its path.
C23_BinaryStatLineCountsAsFile ==
    (called /\ \A k \in DOMAIN arg.blocks : WellFormed(arg.blocks[k])) =>
        \A k \in DOMAIN arg.blocks :
            LET sl == StatLines(arg.blocks[k]) IN
            /\ ret[k].filesChanged = Len(sl)
            /\ Len(ret[k].fileChanges) = Len(sl)
            /\ ret[k].additions = SumContributions(sl, 1)
            /\ ret[k].deletions = SumContributions(sl, 2)
            /\ \A i \in DOMAIN sl :
                  /\ ret[k].fileChanges[i].filePath = SubSeq(sl[i], 3, Len(sl[i]))
                  /\ sl[i][1] = "-" => ret[k].fileChanges[i].additions = 0
                  /\ sl[i][2] = "-" => ret[k].fileChanges[i].deletions = 0

\* a commit with a binary file and a text file: two files, one line added
C23_Witness ==
    /\ called
    /\ Len(arg.blocks) = 1
    /\ WellFormed(arg.blocks[1])
    /\ StatLines(arg.blocks[1]) = <<<<"-", "-", "bin.png">>, <<"1", "1", "my", "file.ts">>>>
    /\ ret[1].filesChanged = 2
    /\ ret[1].additions = 1
    /\ ret[1].deletions = 1
    /\ ret[1].fileChanges[1] = FileChange(<<"bin.png">>, 0, 0)

\* C28: every commit record returned by parseGitLog is internally
\* consistent: its additions equals the sum of the additions of its
\* fileChanges, its deletions equals the sum of their deletions, and its
\* filesChanged equals the number of its fileChanges.
C28_CommitTotalsMatchFileChanges ==
    called =>
        \A k \in DOMAIN ret :
            /\ ret[k].additions = SumAdd(ret[k].fileChanges)
            /\ ret[k].deletions = SumDel(ret[k].fileChanges)
            /\ ret[k].filesChanged = Len(ret[k].fileChanges)

\* two records, one with a binary and a text file, one without any stat line
C28_Witness ==
    /\ called
    /\ Len(ret) = 2
    /\ Len(ret[1].fileChanges) = 2
    /\ ret[1].fileChanges[1].additions = 0
    /\ ret[1].additions = 1
    /\ ret[2].fileChanges = <<>>
    /\ ret[2].filesChanged = 0

HasEightFields(line) == Len(line) >= 8

\* the lines a tag is built from
TagLines(listing) == SelectSeq(listing.lines, HasEightFields)

\* the tag-date field is missing, not an integer, or not positive
NoTagDate(field) == field = "" \/ ParseIntWord(field).nan \/ ParseIntWord(field).n <= 0

\* C24: for every tag returned by parseGitTags, isAnnotated is true if and
\* only if the ref's object type is "tag"; when isAnnotated is false,
\* taggerName, taggerEmail, tagDate and message are all null; and tagDate
\* is null whenever the tag-date field is missing, not an integer, or not
\* positive.
C24_LightweightTagHasNoTagger ==
    (called /\ arg.ok) =>
        /\ Len(ret) = Len(TagLines(arg))
        /\ \A k \in DOMAIN ret :
              LET line == TagLines(arg)[k] IN
              /\ ret[k].tagName = line[1]
              /\ ret[k].isAnnotated = (line[2] = "tag")
              /\ ~ret[k].isAnnotated =>
                    /\ ret[k].taggerName = NULL
                    /\ ret[k].taggerEmail = NULL
                    /\ ret[k].tagDate = NullDate
                    /\ ret[k].message = NULL
              /\ NoTagDate(line[6]) => ret[k].tagDate = NullDate

\* a lightweight tag whose line carries the commit's subject, after an
\* annotated tag dated 0
C24_Witness ==
    /\ called
    /\ arg.ok
    /\ arg.lines = <<<<"v1", "tag", "s1", "T", "<t@x.com>", "0", "rel", "">>,
                     <<"v2", "commit", "s2", "", "", "", "init", "">>>>
    /\ Len(ret) = 2
    /\ ret[1].isAnnotated
    /\ ret[1].tagDate = NullDate
    /\ ret[1].message = "rel"
    /\ ~ret[2].isAnnotated
    /\ ret[2].message = NULL

KnownLanguages == { languageMap(ExtOf(FilePool[i])) : i \in DOMAIN FilePool } \ {NULL}

\* the positions of the listing whose path has the extension
FilesWithExt(files, ext) == { i \in DOMAIN files : HasExt(files[i]) /\ ExtOf(files[i]) = ext }

\* the positions of the listing whose extension maps to the language
FilesOfLanguage(files, lang) ==
    { i \in DOMAIN files : HasExt(files[i]) /\ languageMap(ExtOf(files[i])) = lang }

KnownExts(files) ==
    { ExtOf(files[i]) : i \in { j \in DOMAIN files :
                                  HasExt(files[j]) /\ languageMap(ExtOf(files[j])) # NULL } }

FirstOf(S) == CHOOSE i \in S : \A j \in S : i <= j

StoredRun ==
    /\ \A i \in DOMAIN commits :
          /\ HasCommit(db.commits, world.name, commits[i].sha)
          /\ \E a \in DOMAIN db.authors : db.authors[a].email = commits[i].authorEmail
          /\ \A k \in DOMAIN commits[i].fileChanges :
                HasFileChange(db.file_changes, FileChangeRows(world.name, commits[i])[k])
    /\ \E r \in DOMAIN db.repos :
          /\ db.repos[r].name = world.name
          /\ db.repos[r].language = language
          /\ db.repos[r].total_commits = Len(commits)

\* C26: a failure of the tag-ref listing or of the tracked-file listing
\* never makes etlGitRepo raise or roll back: parseGitTags yields an empty
\* tag list and getRepoLanguage yields null, and the run goes on to commit
\* a transaction containing the commits, authors, file changes and
\* repository metadata (git answering the branch and the log with commits,
\* and the engine failing no statement).
C26_ListingFailureDegrades ==
    (/\ pc = "done"
     /\ world.branchOk
     /\ world.logOk
     /\ world.log # <<>>
     /\ ~world.filesOk \/ ~world.tagsOk) =>
        /\ ~world.filesOk => language = NULL
        /\ ~world.tagsOk => tags = <<>>
        /\ "begin" \in Range(trace)
        /\ outcome = "raised" => error = thrown
        /\ (faults = 0 /\ AllValid(world.log)) =>
              /\ outcome = "returned"
              /\ CountOf(trace, "commit") = 1
              /\ CountOf(trace, "rollback") = 0
              /\ StoredRun

\* the tag listing of a repository with a tag failed: the run returned and
\* stored two commits and no tag
C26_Witness ==
    /\ pc = "done"
    /\ ~world.tagsOk
    /\ world.tags # <<>>
    /\ outcome = "returned"
    /\ tags = <<>>
    /\ language = "TypeScript"
    /\ dbBefore = EmptyDb
    /\ Len(db.commits) = 2
    /\ db.tags = <<>>
    /\ Len(db.repos) = 1

\* the steps of a run up to and including the log read
BeforeEmptyCheck == {"idle", "getRepoInfo", "getRepoLanguage", "parseGitLog"}

\* C29: when the parsed commit list is empty, etlGitRepo returns normally
\* without beginning a transaction and without issuing any write: every
\* table, including the repos row of that repository, is left unchanged.
C29_EmptyLogWritesNothing ==
    (/\ pc \notin BeforeEmptyCheck
     /\ world.branchOk
     /\ world.logOk
     /\ world.log = <<>>) =>
        /\ pc = "done"
        /\ outcome = "returned"
        /\ commits = <<>>
        /\ "begin" \notin Range(trace)
        /\ "parseGitTags" \notin Range(trace)
        /\ stmts = 0
        /\ openTx = 0
        /\ db = dbBefore

\* a run that found no commit in a repository whose earlier run stored two
\* commits and a repos row
C29_Witness ==
    /\ pc = "done"
    /\ world.branchOk
    /\ world.logOk
    /\ world.log = <<>>
    /\ outcome = "returned"
    /\ Len(hist) = 1
    /\ hist[1].world.name = world.name
    /\ Len(db.commits) = 2
    /\ \E r \in DOMAIN db.repos : db.repos[r].name = world.name /\ db.repos[r].total_commits = 2

\* a single loop over every file change: the whole list as one batch
Unbatched(tbl, all, f) == insertBatch(NoneInserted(tbl), all, 1, 0, f)

\* C27: batching in insertFileChanges has no semantic effect: for any number
\* of file changes (below, equal to, or above a multiple of the batch size)
\* it issues exactly one insert per file change of every commit, each
\* exactly once and in commit-then-file order, so the resulting table state
\* and the returned count of newly inserted rows equal those of a single
\* unbatched loop.
C27_BatchingHasNoEffect ==
    called =>
        LET all == Flatten("r1", arg.log)
            u == Unbatched(arg.tbl, all, arg.f)
        IN /\ ret.issued = (IF arg.f \in 1..Len(all) THEN SubSeq(all, 1, arg.f - 1) ELSE all)
           /\ ret.tbl = u.tbl
           /\ ret.totalInserted = u.totalInserted
           /\ ret.threw = u.threw
           /\ ret.threw = NoError => ret.totalInserted = Len(ret.tbl) - Len(arg.tbl)

\* six file changes in batches of three, one path listed twice by a commit
\* and one row stored before the call
C27_Witness ==
    /\ called
    /\ arg.size = 3
    /\ arg.log = <<cF3, cB2, cA1>>
    /\ arg.f = 0
    /\ arg.tbl # <<>>
    /\ Len(ret.issued) = 6
    /\ ret.totalInserted = 4
    /\ Len(ret.tbl) = 5

====
